---- MODULE Spec2Model ----
(***************************************************************************)
(* Model of the auto-drive execution core.                                 *)
(*                                                                         *)
(* Session pool (code-auto-drive-core/src/session_pool.rs): every public   *)
(* operation of SessionPool is a sequence of steps.  A step is one         *)
(* critical section on the sessions map, the task queue, the semaphore or  *)
(* the result channel, or one read of the shutdown flag.  Callers run      *)
(* concurrently on a multi-threaded runtime, so steps of different callers *)
(* interleave freely.  What no other caller's control flow can observe is  *)
(* folded into the step before it: writes of PoolMetrics counters, the     *)
(* refresh_metrics call that recomputes the three gauges, the release of a *)
(* permit that was never transferred, and the return of a value.           *)
(* Time is counted in ticks; a session's started_at is kept as the number  *)
(* of ticks elapsed since it was set.  The two exponential means of        *)
(* PoolMetrics and the per-session counters tasks_completed / tokens_used  *)
(* / _errors are wall-clock or write-only bookkeeping and are left out.    *)
(***************************************************************************)
EXTENDS Integers, Sequences, FiniteSets, TLC

\* ------------------------------------------------------------------ bounds
\* concurrent callers, calls of public operations, tasks and session ids
NumProcs == 2
MaxCalls == 3
MaxTasks == 2
MaxSessionIds == 2
\* calls and tasks where the results of the pool are never read
MaxUnreadCalls == 6
MaxUnreadTasks == 3
\* concurrent callers where submit races with dispatch_from_queue and shutdown
NumQueueCallers == 3
\* the configured slow_threshold and stuck_threshold, in ticks
SlowThreshold == 1
StuckThreshold == 2
\* task pipeline: ids callers pass to add, ids create_from_goal draws, calls
MaxAddIds == 1
MaxGoals == 1
MaxPipelineCalls == 5
\* task pipeline: calls that take one task through its stages
MaxProgressCalls == 11
\* task topology: tasks in an input, ids they are drawn from, dependencies
\* of one task
MaxTopoTasks == 3
MaxTopoIds == 3
MaxDeps == 2
\* task topology: tasks of an acyclic input
MaxLayerTasks == 4
\* role channel hub: concurrent senders, buffer sizes, calls of register,
\* messages
NumSenders == 1
MaxBufferSize == 2
MaxChannels == 3
MaxMsgs == 3
\* selective tests: test commands executed before a verification
MaxExecuted == 2
\* housekeeping: processes that call run_housekeeping_if_due, their calls,
\* worktrees, those of them a registry file may list, PIDs with a registry
\* file, failing file system operations;
\* clock ticks in a second, the last tick, min_interval in seconds
NumCleaners == 2
MaxRuns == 2
MaxWorktrees == 2
MaxListed == 1
MaxPids == 2
MaxFaults == 1
TicksPerSecond == 2
MaxClock == 2
MinInterval == 1
\* session cleanup: day directories under sessions/
MaxDayDirs == 3
\* pool locks: concurrent callers of the pool operations
NumLockCallers == 2

\* --------------------------------------------------- program constants
DefaultSessionRetentionDays == 7
DefaultLogRetentionDays == 14
DefaultMaxSessions == 20
DefaultBackpressureThreshold == 200
HighPriority == 3
NormalPriority == 2
LowPriority == 1
\* scale_up_threshold 0.8 and scale_down_threshold 0.3, in tenths
ScaleUpTenths == 8
ScaleDownTenths == 3

Procs == 1..NumProcs
SessionIds == 1..MaxSessionIds
Priorities == {LowPriority, HighPriority}
AgeCap == StuckThreshold + 1

Max(a, b) == IF a >= b THEN a ELSE b
Min(a, b) == IF a <= b THEN a ELSE b

VARIABLES
  config,      \* SessionPool.config after new()
  sessions,    \* SessionPool.sessions: session id -> SessionInfo, or Absent
  next_uuid,   \* number of session ids handed out so far (Uuid::new_v4 is fresh)
  next_task,   \* number of PoolTask values created by callers so far
  calls,       \* number of calls of the pool's public operations so far
  task_queue,  \* SessionPool.task_queue: [queues: <<High, Normal, Low>>, total]
  permits,     \* available permits of SessionPool.semaphore
  channel,     \* results in flight between result_tx and result_rx
  metrics,     \* SessionPool.metrics
  alert,       \* SessionPool.backpressure_alert
  shutdown,    \* SessionPool.shutdown
  pc,          \* per caller: the step it is about to take
  stack,       \* per caller: the steps to continue with when a call returns
  loc,         \* per caller: local variables of the calls in progress
  workers,     \* executions handed out by dispatch_task, not yet reported
               \* back: <<session id, task id, the task's retries>>
  accepted,    \* history: ids of the tasks submit has pushed, in that order
  emitted,     \* history: ids of the tasks a TaskResult was sent for
  tasks,          \* TaskPipeline.tasks: task id -> PipelineTask, or NoPipelineTask
  stage_counts,   \* TaskPipeline.stage_counts: stage -> <<count>>, <<>> if no entry
  next_agent_id,  \* TaskPipeline.next_agent_id
  goals,          \* number of ids create_from_goal has drawn (Uuid::new_v4)
  pipeline_calls, \* number of calls of the pipeline's public operations so far
  returned,       \* the last call of the pipeline: its arguments and its value
  input_tasks,    \* topological_sort's argument tasks
  sort_result,    \* what topological_sort returned for it, NoSortResult before
  buffer_size,    \* RoleChannelHub.buffer_size
  channels,       \* RoleChannelHub.channels: role -> its channel, 0 if none
  chans,          \* the channels register has made, in that order
  hub_pc,         \* per sender: the call of send_to or broadcast in progress
  next_msg,       \* number of messages callers have made so far
  sends,          \* history: the successful send_to calls, in that order, as
                  \* <<role, channel, message number>>
  feature,        \* the Feature that is verified
  sandbox,        \* whether CODEX_SANDBOX_NETWORK_DISABLED is set
  test_plan,      \* the TestPlan held for the feature
  executed,       \* the TestCommandResults of the commands run so far
  verification,   \* the VerificationResult, NoVerification before
  hk_config,        \* HousekeepingConfig::from_env()
  hk_clock,         \* the wall clock, in ticks
  lock_holder,      \* the process that holds the lock of cleanup.lock, 0 if none
  state_file,       \* cleanup-state.json
  session_days,     \* sessions/: the ages in days of the day directories
  log_files,        \* log/: the ages in days of the log files
  tui_log_oversize, \* whether log/codex-tui.log is over log_max_bytes and old enough
  worktrees,        \* working/<repo>/branches: worktree -> [exists, age in days]
  registry,         \* working/_session/pid-<PID>.txt: PID -> [exists, lists]
  alive,            \* PID -> whether the process is alive
  faults,           \* number of operations on the file system that have failed
  hk_runs,          \* number of calls of run_housekeeping_if_due so far
  hk_pc,            \* per process: the step of run_housekeeping_if_due it is at
  hk_loc,           \* per process: the local state of its call
  performed,        \* history: the calls that went on to perform_housekeeping
  today,            \* cleanup_sessions: its argument today
  session_retention_days, \* cleanup_sessions: its argument retention_days
  sessions_root,    \* sessions/: the directories under it
  session_stats,    \* what cleanup_sessions returned, NoSessionStats before
  lk_held,          \* pool locks: lock -> the <<caller, mode>> pairs that hold it
  lk_queue,         \* pool locks: lock -> the <<caller, mode>> pairs waiting, in order
  lk_todo,          \* pool locks: caller -> the steps its operation has yet to take
  lk_op             \* pool locks: caller -> the public operation it runs, "" if none

poolVars == <<config, sessions, next_uuid, next_task, calls, task_queue, permits,
              channel, metrics, alert, shutdown, pc, stack, loc, workers,
              accepted, emitted>>

pipelineVars == <<tasks, stage_counts, next_agent_id, goals, pipeline_calls,
                  returned>>

topologyVars == <<input_tasks, sort_result>>

hubVars == <<buffer_size, channels, chans, hub_pc, next_msg, sends>>

selectiveVars == <<feature, sandbox, test_plan, executed, verification>>

housekeepingVars == <<hk_config, hk_clock, lock_holder, state_file,
                      session_days, log_files, tui_log_oversize, worktrees,
                      registry, alive, faults, hk_runs, hk_pc, hk_loc,
                      performed>>

sessionsVars == <<today, session_retention_days, sessions_root,
                  session_stats>>

locksVars == <<lk_held, lk_queue, lk_todo, lk_op>>

\* what the operations of the session pool leave alone
besidesPool == <<pipelineVars, topologyVars, hubVars, selectiveVars,
                 housekeepingVars,
                 sessionsVars,
                 locksVars>>

\* what the operations of the task pipeline leave alone
besidesPipeline == <<poolVars, topologyVars, hubVars, selectiveVars,
                     housekeepingVars,
                     sessionsVars,
                     locksVars>>

\* what topological_sort leaves alone
besidesTopology == <<poolVars, pipelineVars, hubVars, selectiveVars,
                     housekeepingVars,
                     sessionsVars,
                     locksVars>>

\* what the operations of the role channel hub leave alone
besidesHub == <<poolVars, pipelineVars, topologyVars, selectiveVars,
                housekeepingVars,
                sessionsVars,
                locksVars>>

\* what the selective tests leave alone
besidesSelective == <<poolVars, pipelineVars, topologyVars, hubVars,
                      housekeepingVars,
                      sessionsVars,
                      locksVars>>

\* what run_housekeeping_if_due leaves alone
besidesHousekeeping == <<poolVars, pipelineVars, topologyVars, hubVars,
                         selectiveVars,
                         sessionsVars,
                         locksVars>>

\* what cleanup_sessions leaves alone
besidesSessions == <<poolVars, pipelineVars, topologyVars, hubVars,
                     selectiveVars, housekeepingVars,
                     locksVars>>

\* what the lock steps of the pool operations leave alone
besidesLocks == <<poolVars, pipelineVars, topologyVars, hubVars, selectiveVars, housekeepingVars, sessionsVars>>

vars == <<config, sessions, next_uuid, next_task, calls, task_queue, permits,
          channel, metrics, alert, shutdown, pc, stack, loc, workers,
          accepted, emitted, tasks, stage_counts, next_agent_id, goals,
          pipeline_calls, returned, input_tasks, sort_result, buffer_size,
          channels, chans, hub_pc, next_msg, sends, feature, sandbox,
          test_plan, executed, verification, hk_config, hk_clock,
          lock_holder, state_file, session_days, log_files,
          tui_log_oversize, worktrees, registry, alive, faults, hk_runs,
          hk_pc, hk_loc, performed,
          today, session_retention_days, sessions_root, session_stats,
          lk_held, lk_queue, lk_todo, lk_op>>

\* ------------------------------------------------- task pipeline: data
\* PipelineStage
Stages == {"Queued", "Planning", "Implementing", "Testing", "Reviewing",
           "Completed", "Failed"}

\* PipelineStage::next; "None" for the terminal stages
PipelineStage_next_skipping(stage) ==
  CASE stage = "Queued" -> "Implementing"
    [] stage = "Planning" -> "Implementing"
    [] stage = "Implementing" -> "Testing"
    [] stage = "Testing" -> "Reviewing"
    [] stage = "Reviewing" -> "Completed"
    [] OTHER -> "None"

PipelineStage_next(stage) ==
  CASE stage = "Queued" -> "Planning"
    [] stage = "Planning" -> "Implementing"
    [] stage = "Implementing" -> "Testing"
    [] stage = "Testing" -> "Reviewing"
    [] stage = "Reviewing" -> "Completed"
    [] OTHER -> "None"

\* PipelineStage::active_roles
active_roles(stage) ==
  CASE stage = "Planning" -> {"Coordinator", "Architect"}
    [] stage = "Implementing" -> {"Executor-1", "Executor-2", "Executor-3"}
    [] stage = "Testing" -> {"Tester", "Debugger"}
    [] stage = "Reviewing" -> {"Reviewer"}
    [] OTHER -> {}

RoleNames == UNION {active_roles(stage) : stage \in Stages}

\* the roles and outputs callers report with, and the task ids they use:
\* 1..MaxAddIds are the ids callers construct tasks with, the ids above them
\* are the ones Uuid::new_v4 yields
ReportRoles == {"Coordinator", "Architect", "Tester", "Reviewer"}
Outputs == {"out", "err"}
AddIds == 1..MaxAddIds
PipelineIds == 1..(MaxAddIds + MaxGoals)

\* RoleResult, and the value of a role with no entry in role_results[stage]
NoRoleResult == [output |-> "", success |-> FALSE, reported |-> FALSE]
RoleResult(output, success) ==
  [output |-> output, success |-> success, reported |-> TRUE]

\* StageOutput (content and tokens_used left out), and the value of a stage
\* with no entry in stage_outputs; error "" is None
NoStageOutput == [stage |-> "None", success |-> FALSE, error |-> ""]
StageOutput(stage, success, error) ==
  [stage |-> stage, success |-> success, error |-> error]

\* PipelineTask (description and the two timestamps left out)
NoPipelineTask == [id |-> 0, stage |-> "None"]
PipelineTask_new(id) ==
  [id |-> id,
   stage |-> "Queued",
   stage_outputs |-> [s \in Stages |-> NoStageOutput],
   retries |-> 0,
   role_results |-> [s \in Stages |-> [r \in RoleNames |-> NoRoleResult]]]

\* PipelineTask::advance: the task afterwards (unchanged when it returns false)
PipelineTask_advance(task) ==
  IF PipelineStage_next(task.stage) # "None"
    THEN [task EXCEPT !.stage = PipelineStage_next(task.stage)]
    ELSE task

\* PipelineTask::record_output
PipelineTask_record_output(task, output) ==
  [task EXCEPT !.stage_outputs[output.stage] = output]

\* PipelineTask::fail
PipelineTask_fail_unrecorded(task, error) ==
  [task EXCEPT !.stage = "Failed"]

PipelineTask_fail(task, error) ==
  [task EXCEPT !.stage_outputs[task.stage] =
                  StageOutput(task.stage, FALSE, error),
               !.stage = "Failed"]

\* PipelineTask::is_terminal
is_terminal(task) == task.stage \in {"Completed", "Failed"}

\* stage_counts: the count recorded for a stage, 0 when it has no entry
CountOf(counts, stage) ==
  IF counts[stage] = <<>> THEN 0 ELSE counts[stage][1]

\* *stage_counts.entry(stage).or_insert(0) += 1
CountUp(counts, stage) ==
  [counts EXCEPT ![stage] = <<CountOf(counts, stage) + 1>>]

\* if let Some(count) = stage_counts.get_mut(stage) { saturating_sub(1) }
CountDown(counts, stage) ==
  IF counts[stage] = <<>> THEN counts
  ELSE [counts EXCEPT ![stage] = <<counts[stage][1] - 1>>]

\* TaskPipeline::update_stage_counts
update_stage_counts(counts, old_stage, new_stage) ==
  IF old_stage = new_stage THEN counts
  ELSE CountUp(CountDown(counts, old_stage), new_stage)

\* the last call: its name and arguments (id, role, output, success) and its
\* value: kind is "Advance", "Wait", "Fail", "TaskNotFound", "true", "false",
\* "Ok" or "unit"; stage is Advance's stage; error is Fail's error (Fail's
\* role is the argument role); ids are the ids of the tasks drain_terminal
\* returns or the id create_from_goal returns; agents are the AgentTasks of
\* get_stage_tasks as <<agent id, role>>
NoCall == [call |-> "none", id |-> 0, role |-> "", output |-> "",
           success |-> FALSE, kind |-> "unit", stage |-> "None",
           error |-> "", ids |-> {}, agents |-> {}]

\* TaskPipeline::new
TaskPipeline_new ==
  /\ tasks = [id \in PipelineIds |-> NoPipelineTask]
  /\ stage_counts = [s \in Stages |-> <<>>]
  /\ next_agent_id = 1
  /\ goals = 0
  /\ pipeline_calls = 0
  /\ returned = NoCall


\* ------------------------------------------------- task topology: data
\* the value of sort_result before topological_sort has returned; afterwards
\* kind is "Ok", "CircularDependency" or "UnknownDependency", dependency is
\* the id UnknownDependency carries (0 otherwise), layers and total_tasks are
\* those of TaskLayers
NoSortResult == [kind |-> "none", dependency |-> 0, layers |-> <<>>,
                 total_tasks |-> 0]

\* no call of topological_sort
TopologyIdle ==
  /\ input_tasks = <<>>
  /\ sort_result = NoSortResult

\* --------------------------------------------- role channel hub: data
HubRoles == {"Role1", "Role2"}
Senders == 1..NumSenders

\* a sender with no call in progress; ret is what its last call returned
\* ("Ok", "Role not found", "Channel closed", "unit" for broadcast)
NoSend == [op |-> "idle", role |-> "", ch |-> 0, msg |-> 0, todo |-> <<>>,
           ret |-> "none"]

\* RoleChannelHub::new(buffer_size)
RoleChannelHub_new(size) ==
  /\ buffer_size = size
  /\ channels = [r \in HubRoles |-> 0]
  /\ chans = <<>>
  /\ hub_pc = [p \in Senders |-> NoSend]
  /\ next_msg = 0
  /\ sends = <<>>

\* ------------------------------------------------- selective tests: data
FeatureIds == {"F-1", "F-2"}

\* the test commands of the features, and the commands that are executed
UnitCommand == "cargo test unit"
E2eCommand == "cargo test e2e"
Commands == {UnitCommand, E2eCommand}

\* Option<String>
None == <<>>
Some(v) == <<v>>

\* Feature, as far as the planning and the verification read it
Features ==
  [id : FeatureIds, tdd_mode : {"Strict", "Relaxed"},
   unit : {<<>>, <<UnitCommand>>}, e2e : {<<>>, <<E2eCommand>>}]

\* TestPlan::empty()
TestPlan_empty == [quick |-> <<>>, full |-> <<>>, missing |-> <<>>]

\* TestCommandResult::success(command) and ::failure(command, output)
TestCommandResult(command, passed) == [command |-> command, passed |-> passed]

\* VerificationResult::new(verified, tests_run, summary)
VerificationResult_new(verified, tests_run) ==
  [verified |-> verified, tests_run |-> tests_run, reason |-> None]

with_reason(result, reason) == [result EXCEPT !.reason = Some(reason)]

\* no verification made yet
NoVerification == [verified |-> FALSE, tests_run |-> <<>>, reason |-> Some("none")]

\* no use of the selective tests
SelectiveIdle ==
  /\ feature = [id |-> "F-1", tdd_mode |-> "Relaxed", unit |-> <<>>, e2e |-> <<>>]
  /\ sandbox = FALSE
  /\ test_plan = TestPlan_empty
  /\ executed = <<>>
  /\ verification = NoVerification

\* ---------------------------------------------------- housekeeping: data
Cleaners == 1..NumCleaners
Worktrees == 1..MaxWorktrees
Pids == 1..MaxPids

\* worktree_retention_days: None ("off"), or days >= 0
RetentionOff == -1
WorktreeRetentions == {RetentionOff, 0, 1}

\* HousekeepingConfig::from_env(): disabled, or enabled with one of the
\* retentions
HousekeepingConfigs ==
  {[disabled |-> TRUE, worktree_retention_days |-> RetentionOff]}
    \cup [disabled : {FALSE}, worktree_retention_days : WorktreeRetentions]

\* CleanupState: last_run_unix is <<>> for None, <<seconds>> for Some
CleanupState_default == [last_run_unix |-> <<>>]

\* cleanup-state.json: absent, or the CleanupState written last
NoStateFile == [exists |-> FALSE, state |-> CleanupState_default]

\* CleanupOutcome::default(), without the file and byte counts
CleanupOutcome_default ==
  [session_days_removed |-> 0, worktrees_removed |-> 0,
   worktrees_skipped_active |-> 0, errors |-> 0]

\* the value run_housekeeping_if_due returns: kind is "Ok(None)",
\* "Ok(Some)" with the outcome, or "Err"; "none" before the first return
NoHkRet == [kind |-> "none", outcome |-> CleanupOutcome_default]

\* the local state of one call of run_housekeeping_if_due.  now: the time
\* read after the lock was taken, in clock ticks; active: the set
\* collect_active_worktrees returned; outcome: the counters so far; ret:
\* the value returned.  History of the call: why: where it returned early
\* ("disabled", "lock busy", "lock error", "state error", "ran recently",
\* "log error"); alive_at_scan: the PIDs that had a registry file and were
\* alive when the registry was scanned; undetermined: the PIDs whose liveness
\* check yielded None; removed: the worktrees the call has removed.  A call
\* that returns keeps ret and why until the process calls again
NoHkLoc ==
  [now |-> 0, active |-> {}, outcome |-> CleanupOutcome_default,
   ret |-> NoHkRet, why |-> "", alive_at_scan |-> {}, undetermined |-> {},
   removed |-> {}]

\* no process has called run_housekeeping_if_due on the home directory
HousekeepingIdle ==
  /\ hk_config = [disabled |-> TRUE, worktree_retention_days |-> RetentionOff]
  /\ hk_clock = 0
  /\ lock_holder = 0
  /\ state_file = NoStateFile
  /\ session_days = {}
  /\ log_files = {}
  /\ tui_log_oversize = FALSE
  /\ worktrees = [w \in Worktrees |-> [exists |-> FALSE, age |-> 0]]
  /\ registry = [pid \in Pids |-> [exists |-> FALSE, lists |-> {}]]
  /\ alive = [pid \in Pids |-> FALSE]
  /\ faults = 0
  /\ hk_runs = 0
  /\ hk_pc = [p \in Cleaners |-> "idle"]
  /\ hk_loc = [p \in Cleaners |-> NoHkLoc]
  /\ performed = <<>>

\* ------------------------------------------------- session cleanup: data
\* Date: a calendar date
Date(year, month, day) == [year |-> year, month |-> month, day |-> day]

\* the directories sessions/<year>, sessions/<year>/<month> and
\* sessions/<year>/<month>/<day> that the inputs are made of; the names are
\* numbers, and 02/30 and 2023/02/29 name no date
YearDirs == {<<2023>>, <<2024>>}
MonthDirs == {<<2023, 2>>, <<2023, 12>>, <<2024, 1>>, <<2024, 2>>, <<2024, 3>>}
DayDirs == {<<2023, 2, 29>>, <<2023, 12, 31>>, <<2024, 1, 1>>, <<2024, 2, 28>>,
            <<2024, 2, 29>>, <<2024, 2, 30>>, <<2024, 3, 1>>}

\* the values of today and of retention_days
Todays == {Date(2024, 1, 1), Date(2024, 2, 29), Date(2024, 3, 1)}
SessionRetentions == {0, 1, 2, 61, 62}

\* sessions/: the year, month and day directories in it, and the year and
\* month directories that hold an entry whose name is no number (other)
EmptySessionsRoot == [years |-> {}, months |-> {}, days |-> {}, other |-> {}]

\* SessionCleanupStats (the file and byte counts left out); NoSessionStats
\* before cleanup_sessions has returned
NoSessionStats == [removed_days |-> -1, errors |-> 0]

\* no call of cleanup_sessions
SessionsIdle ==
  /\ today = Date(2024, 1, 1)
  /\ session_retention_days = DefaultSessionRetentionDays
  /\ sessions_root = EmptySessionsRoot
  /\ session_stats = NoSessionStats

\* ------------------------------------------------------ pool locks: data
\* SessionPool's locks: tokio RwLocks and Mutexes, all of which queue their
\* waiters in the order of their requests
RwLocks == {"sessions", "metrics", "backpressure_alert", "shutdown"}
Mutexes == {"task_queue", "result_rx"}
LockNames == RwLocks \cup Mutexes

LockCallers == 1..NumLockCallers

\* no operation of the pool is running and no lock is held
LocksIdle ==
  /\ lk_held = [l \in LockNames |-> {}]
  /\ lk_queue = [l \in LockNames |-> <<>>]
  /\ lk_todo = [p \in LockCallers |-> <<>>]
  /\ lk_op = [p \in LockCallers |-> ""]

\* ------------------------------------------------------------ data types
NoTask == [id |-> 0, priority |-> 0, retries |-> 0]

PoolTask_new(id) == [id |-> id, priority |-> LowPriority, retries |-> 0]

with_priority(task, priority) == [task EXCEPT !.priority = priority]

\* started = -1 is started_at = None, otherwise the ticks elapsed since it.
SessionInfo_new == [state |-> "Idle", current_task |-> NoTask, started |-> -1,
                    permit |-> FALSE]

\* An id that is not a key of the sessions map.
Absent == [state |-> "Absent", current_task |-> NoTask, started |-> -1,
           permit |-> FALSE]

TaskResult(task_id, session_id, success, content, tokens_used) ==
  [task_id |-> task_id, session_id |-> session_id, success |-> success,
   content |-> content, tokens_used |-> tokens_used]

NoResult == TaskResult(0, 0, FALSE, "", 0)

PoolMetrics_default ==
  [tasks_submitted |-> 0, tasks_completed |-> 0, tasks_failed |-> 0,
   total_tokens |-> 0, queue_size |-> 0, active_sessions |-> 0,
   idle_sessions |-> 0, retry_count |-> 0, failure_count |-> 0,
   stuck_count |-> 0, migration_count |-> 0, backpressure_warnings |-> 0,
   backpressure_rejections |-> 0]

NoAlert == [kind |-> "None", queue_size |-> 0, limit |-> 0]

BudgetAlert(kind, queue_size, limit) ==
  [kind |-> kind, queue_size |-> queue_size, limit |-> limit]

\* A call's return value: tag names Ok / the PoolError variant, a and b its fields.
Ret(tag, a, b) == [tag |-> tag, a |-> a, b |-> b]

NoRet == Ret("None", 0, 0)

SessionPoolConfig_default ==
  [max_sessions |-> DefaultMaxSessions, min_sessions |-> 5, max_retries |-> 3,
   backpressure_threshold |-> DefaultBackpressureThreshold]

\* The configurations callers construct the pool with.
Configs ==
  { [max_sessions |-> 1, min_sessions |-> 1, max_retries |-> 0,
     backpressure_threshold |-> 1],
    [max_sessions |-> 2, min_sessions |-> 1, max_retries |-> 1,
     backpressure_threshold |-> 2],
    [max_sessions |-> 0, min_sessions |-> 0, max_retries |-> 0,
     backpressure_threshold |-> DefaultBackpressureThreshold] }

\* SessionPool::new: the derived backpressure threshold.
SessionPool_new_config(c) ==
  IF c.backpressure_threshold <= 0
     \/ (c.backpressure_threshold = SessionPoolConfig_default.backpressure_threshold
         /\ c.max_sessions # SessionPoolConfig_default.max_sessions)
  THEN [c EXCEPT !.backpressure_threshold = c.max_sessions * 10]
  ELSE c

\* variant of Capacity: a semaphore and a session cap one larger
Capacity_plus_one == Max(config.max_sessions, 1) + 1

\* config.max_sessions.max(1): the semaphore's size and the session cap of dispatch_task.
Capacity == Max(config.max_sessions, 1)

\* result channel capacity: mpsc::channel(max_sessions * 2)
ChannelCap == Capacity * 2

\* --------------------------------------------------------------- TaskQueue
TaskQueue_new == [queues |-> << <<>>, <<>>, <<>> >>, total |-> 0]

\* the match on task.priority in push / push_front (1-based index)
ClassOf(priority) ==
  IF priority >= HighPriority THEN 1
  ELSE IF priority = NormalPriority THEN 2
  ELSE 3

TaskQueue_push(q, task) ==
  [queues |-> [q.queues EXCEPT ![ClassOf(task.priority)] = Append(@, task)],
   total |-> q.total + 1]

TaskQueue_push_front(q, task) ==
  [queues |-> [q.queues EXCEPT ![ClassOf(task.priority)] = <<task>> \o @],
   total |-> q.total + 1]

\* variant of PopClass: the classes scanned from Low to High
PopClass_low_first(q) ==
  IF q.queues[3] # <<>> THEN 3
  ELSE IF q.queues[2] # <<>> THEN 2
  ELSE IF q.queues[1] # <<>> THEN 1
  ELSE 0

\* index of the class pop takes from, 0 when every class is empty
PopClass(q) ==
  IF q.queues[1] # <<>> THEN 1
  ELSE IF q.queues[2] # <<>> THEN 2
  ELSE IF q.queues[3] # <<>> THEN 3
  ELSE 0

\* pop: the task returned (NoTask for None) and the queue left behind
TaskQueue_pop_task(q) ==
  IF PopClass(q) = 0 THEN NoTask ELSE Head(q.queues[PopClass(q)])

TaskQueue_pop_rest(q) ==
  IF PopClass(q) = 0 THEN q
  ELSE [queues |-> [q.queues EXCEPT ![PopClass(q)] = Tail(@)],
        total |-> Max(q.total - 1, 0)]

TaskQueue_len(q) == q.total

\* ------------------------------------------------------------ submit maths
\* variant of Threshold: the configured value without the clamp
Threshold_unclamped == config.backpressure_threshold

\* let threshold = self.config.backpressure_threshold.max(1)
Threshold == Max(config.backpressure_threshold, 1)

\* variant of WarningThreshold: rounded down
WarningThreshold_floor == (4 * Threshold) \div 5

\* ((threshold as f64) * 0.8).ceil() as i32
WarningThreshold == (4 * Threshold + 4) \div 5

\* ----------------------------------------------------------- local state
\* op: the public operation the caller is in; sd: whether shutdown() had
\* returned when it was called; full: whether every permit was held by a
\* session with a task when it was called; task: the task of dispatch_from_queue /
\* dispatch_task; sub: the task of submit; result: complete_session's argument;
\* attempt: the retries of the task when the execution that reports result was
\* handed out; retry, events: to_retry and migrations of migrate_stuck; hslow,
\* hstuck: the report of health_check; ret: the value returned.
NoLoc ==
  [op |-> "", sd |-> FALSE, full |-> FALSE, task |-> NoTask, sub |-> NoTask, ret |-> NoRet,
   result |-> NoResult, attempt |-> 0, retry |-> <<>>, events |-> <<>>,
   hslow |-> {}, hstuck |-> {}]

Init ==
  /\ config \in {SessionPool_new_config(c) : c \in Configs}
  /\ sessions = [s \in SessionIds |-> Absent]
  /\ next_uuid = 0
  /\ next_task = 0
  /\ calls = 0
  /\ task_queue = TaskQueue_new
  /\ permits = Capacity
  /\ channel = <<>>
  /\ metrics = PoolMetrics_default
  /\ alert = NoAlert
  /\ shutdown = FALSE
  /\ pc = [p \in Procs |-> "idle"]
  /\ stack = [p \in Procs |-> <<>>]
  /\ loc = [p \in Procs |-> NoLoc]
  /\ workers = {}
  /\ accepted = <<>>
  /\ emitted = {}
  /\ TaskPipeline_new
  /\ LocksIdle
  /\ SessionsIdle
  /\ TopologyIdle
  /\ RoleChannelHub_new(1)
  /\ SelectiveIdle
  /\ HousekeepingIdle

\* ------------------------------------------------------------ control flow
\* Where a call that returns r continues.  Returning into submit or
\* complete_session after their trailing dispatch_from_queue (whose result is
\* dropped) returns Ok from them in turn; returning Ok into dispatch_from_queue
\* returns Ok(Some(id)) from it.
RECURSIVE Unwind(_, _)
Unwind(stk, r) ==
  IF stk = <<>> THEN [pc |-> "done", stack |-> <<>>, ret |-> r]
  ELSE IF Head(stk) \in {"sb_done", "cs_done"}
  THEN Unwind(Tail(stk), Ret("Ok", 0, 0))
  ELSE IF Head(stk) = "dq_after" /\ r.tag = "Ok" THEN Unwind(Tail(stk), r)
  ELSE [pc |-> Head(stk), stack |-> Tail(stk), ret |-> r]

\* every permit of the semaphore is held by a session that has a task
AllPermitsWithBusySessions ==
  /\ permits = 0
  /\ Cardinality({s \in SessionIds : /\ sessions[s].permit
                                     /\ sessions[s].current_task # NoTask})
       = Capacity

\* the caller p starts the public operation op at label
EnterWithin(limit, p, op, label, newloc) ==
  /\ pc[p] = "idle"
  /\ calls < limit
  /\ calls' = calls + 1
  /\ pc' = [pc EXCEPT ![p] = label]
  /\ stack' = stack
  /\ loc' = [loc EXCEPT ![p] = [newloc EXCEPT !.op = op, !.sd = shutdown,
                                                !.full = AllPermitsWithBusySessions]]

Enter(p, op, label, newloc) == EnterWithin(MaxCalls, p, op, label, newloc)

Goto(p, label, newloc) ==
  /\ pc' = [pc EXCEPT ![p] = label]
  /\ stack' = stack
  /\ loc' = [loc EXCEPT ![p] = newloc]

\* run from label, and continue with the labels of conts when that returns
Call(p, label, conts, newloc) ==
  /\ pc' = [pc EXCEPT ![p] = label]
  /\ stack' = [stack EXCEPT ![p] = conts \o @]
  /\ loc' = [loc EXCEPT ![p] = newloc]

Return(p, r, newloc) ==
  LET u == Unwind(stack[p], r)
  IN /\ pc' = [pc EXCEPT ![p] = u.pc]
     /\ stack' = [stack EXCEPT ![p] = u.stack]
     /\ loc' = [loc EXCEPT ![p] = [newloc EXCEPT !.ret = u.ret]]

\* the caller has its return value and is free for the next call
Finish(p) ==
  /\ pc[p] = "done"
  /\ pc' = [pc EXCEPT ![p] = "idle"]
  /\ loc' = [loc EXCEPT ![p] = NoLoc]
  /\ UNCHANGED <<config, sessions, next_uuid, next_task, calls, task_queue,
                 permits, channel, metrics, alert, shutdown, stack, workers,
                 accepted, emitted>>
  /\ UNCHANGED besidesPool

Present == {s \in SessionIds : sessions[s].state # "Absent"}

InState(st) == {s \in SessionIds : sessions[s].state = st}

\* the tokens_used values callers report
TokenChoices == {1}

\* refresh_metrics: the gauges of m recomputed over queue q and sessions ss
refresh_metrics(m, q, ss) ==
  [m EXCEPT
     !.queue_size = TaskQueue_len(q),
     !.active_sessions = Cardinality({s \in SessionIds : ss[s].state = "Running"}),
     !.idle_sessions = Cardinality({s \in SessionIds : ss[s].state = "Idle"})]

\* ------------------------------------------------------------------ submit
CallSubmitWithin(limit, most, p) ==
  /\ next_task < most
  /\ \E priority \in Priorities :
       EnterWithin(limit, p, "submit", "sb_check",
                   [NoLoc EXCEPT
                      !.sub = with_priority(PoolTask_new(next_task + 1),
                                            priority)])
  /\ next_task' = next_task + 1
  /\ UNCHANGED <<config, sessions, next_uuid, task_queue, permits, channel,
                 metrics, alert, shutdown, workers, accepted, emitted>>
  /\ UNCHANGED besidesPool

CallSubmit(p) == CallSubmitWithin(MaxCalls, MaxTasks, p)

\* variant of ShutdownRead: the flag is not looked at
ShutdownRead_never == FALSE

\* *self.shutdown.read().await
ShutdownRead == shutdown

\* if *self.shutdown.read().await { return Err(ShuttingDown) }
SubmitCheck(p) ==
  /\ pc[p] = "sb_check"
  /\ IF ShutdownRead
     THEN Return(p, Ret("ShuttingDown", 0, 0), [loc[p] EXCEPT !.sub = NoTask])
     ELSE Goto(p, "sb_queue", loc[p])
  /\ UNCHANGED <<config, sessions, next_uuid, next_task, calls, task_queue,
                 permits, channel, metrics, alert, shutdown, workers, accepted,
                 emitted>>
  /\ UNCHANGED besidesPool

\* the acceptance order with id in it
Accept(seq, id) ==
  IF \E i \in 1..Len(seq) : seq[i] = id THEN seq ELSE Append(seq, id)

\* the section of submit that holds the task_queue lock, then tasks_submitted,
\* refresh_metrics and the call of dispatch_from_queue
SubmitQueue(p) ==
  /\ pc[p] = "sb_queue"
  /\ LET current == TaskQueue_len(task_queue)
         projected == current + 1
         task == loc[p].sub
         pushed == TaskQueue_push(task_queue, task)
     IN IF current >= Threshold
        THEN /\ metrics' = [metrics EXCEPT !.backpressure_rejections = @ + 1]
             /\ alert' = BudgetAlert("BackpressureExceeded", current, Threshold)
             /\ Return(p, Ret("BackpressureFull", current, Threshold),
                       [loc[p] EXCEPT !.sub = NoTask])
             /\ UNCHANGED <<task_queue, accepted>>
        ELSE /\ IF projected >= WarningThreshold
                THEN /\ metrics' =
                          refresh_metrics(
                            [metrics EXCEPT !.backpressure_warnings = @ + 1,
                                            !.tasks_submitted = @ + 1],
                            pushed, sessions)
                     /\ alert' = BudgetAlert("BackpressureWarning", projected,
                                             Threshold)
                ELSE /\ metrics' =
                          refresh_metrics(
                            [metrics EXCEPT !.tasks_submitted = @ + 1],
                            pushed, sessions)
                     /\ alert' = alert
             /\ task_queue' = pushed
             /\ accepted' = Accept(accepted, task.id)
             /\ Call(p, "dq_pop", <<"sb_done">>, [loc[p] EXCEPT !.sub = NoTask])
  /\ UNCHANGED <<config, sessions, next_uuid, next_task, calls, permits,
                 channel, shutdown, workers, emitted>>
  /\ UNCHANGED besidesPool

\* ------------------------------------------------------ dispatch_from_queue
CallDispatchFromQueue(p) ==
  /\ Enter(p, "dispatch_from_queue", "dq_pop", NoLoc)
  /\ UNCHANGED <<config, sessions, next_uuid, next_task, task_queue, permits,
                 channel, metrics, alert, shutdown, workers, accepted,
                 emitted>>
  /\ UNCHANGED besidesPool

\* let task = { queue.pop() }; an empty queue: refresh_metrics, Ok(None)
DispatchPop(p) ==
  /\ pc[p] = "dq_pop"
  /\ IF TaskQueue_pop_task(task_queue) = NoTask
     THEN /\ metrics' = refresh_metrics(metrics, task_queue, sessions)
          /\ Return(p, Ret("OkNone", 0, 0), loc[p])
          /\ UNCHANGED task_queue
     ELSE /\ task_queue' = TaskQueue_pop_rest(task_queue)
          /\ Call(p, "dt_check", <<"dq_after">>,
                  [loc[p] EXCEPT !.task = TaskQueue_pop_task(task_queue)])
          /\ UNCHANGED metrics
  /\ UNCHANGED <<config, sessions, next_uuid, next_task, calls, permits,
                 channel, alert, shutdown, workers, accepted, emitted>>
  /\ UNCHANGED besidesPool

\* dispatch_task returned an error: push_front, refresh_metrics, and
\* Ok(None) for NoAvailableSessions, the error otherwise
DispatchAfter(p) ==
  /\ pc[p] = "dq_after"
  /\ task_queue' = TaskQueue_push_front(task_queue, loc[p].task)
  /\ metrics' = refresh_metrics(metrics,
                                TaskQueue_push_front(task_queue, loc[p].task),
                                sessions)
  /\ Return(p,
            IF loc[p].ret.tag = "NoAvailableSessions" THEN Ret("OkNone", 0, 0)
            ELSE loc[p].ret,
            [loc[p] EXCEPT !.task = NoTask])
  /\ UNCHANGED <<config, sessions, next_uuid, next_task, calls, permits,
                 channel, alert, shutdown, workers, accepted, emitted>>
  /\ UNCHANGED besidesPool

\* ------------------------------------------------------------ dispatch_task
\* a caller dispatching a task of its own, without submit
CallDispatchTask(p) ==
  /\ next_task < MaxTasks
  /\ \E priority \in Priorities :
       Enter(p, "dispatch_task", "dt_check",
             [NoLoc EXCEPT !.task = with_priority(PoolTask_new(next_task + 1),
                                                  priority)])
  /\ next_task' = next_task + 1
  /\ UNCHANGED <<config, sessions, next_uuid, task_queue, permits, channel,
                 metrics, alert, shutdown, workers, accepted, emitted>>
  /\ UNCHANGED besidesPool

\* the task stays with dispatch_from_queue when dispatch_task fails under it
KeptTask(p) == IF stack[p] = <<>> THEN NoTask ELSE loc[p].task

\* if *self.shutdown.read().await { return Err(ShuttingDown) }
DispatchCheck(p) ==
  /\ pc[p] = "dt_check"
  /\ IF ShutdownRead
     THEN Return(p, Ret("ShuttingDown", 0, 0), [loc[p] EXCEPT !.task = KeptTask(p)])
     ELSE Goto(p, "dt_acquire", loc[p])
  /\ UNCHANGED <<config, sessions, next_uuid, next_task, calls, task_queue,
                 permits, channel, metrics, alert, shutdown, workers, accepted,
                 emitted>>
  /\ UNCHANGED besidesPool

\* self.semaphore.clone().acquire_owned().await: suspends while no permit is free
DispatchAcquire(p) ==
  /\ pc[p] = "dt_acquire"
  /\ permits > 0
  /\ permits' = permits - 1
  /\ Goto(p, "dt_sessions", loc[p])
  /\ UNCHANGED <<config, sessions, next_uuid, next_task, calls, task_queue,
                 channel, metrics, alert, shutdown, workers, accepted,
                 emitted>>
  /\ UNCHANGED besidesPool

\* variant of Attached: the permit is not handed to the session
Attached_without_permit(task) ==
  [state |-> "Running", current_task |-> task, started |-> 0, permit |-> FALSE]

\* the session a task is attached to: Running, with the task, a start time and the permit
Attached(task) ==
  [state |-> "Running", current_task |-> task, started |-> 0, permit |-> TRUE]

\* the sessions dispatch_task may attach a task to: iter_mut().find visits the
\* map in hash order, so any Idle session; a fresh id if there is none and the
\* map is below max_sessions.max(1); none otherwise
AttachTargets ==
  IF InState("Idle") # {} THEN InState("Idle")
  ELSE IF Cardinality(Present) < Capacity THEN {next_uuid + 1}
  ELSE {}

\* the section of dispatch_task that holds the sessions write lock, and what
\* follows it: refresh_metrics and Ok(id), or the permit dropped and
\* Err(NoAvailableSessions)
DispatchAttach(p) ==
  /\ pc[p] = "dt_sessions"
  /\ LET task == loc[p].task
     IN IF AttachTargets # {}
        THEN \E s \in AttachTargets :
               /\ s <= MaxSessionIds
               /\ sessions' = [sessions EXCEPT ![s] = Attached(task)]
               /\ next_uuid' = IF sessions[s].state = "Absent" THEN s ELSE next_uuid
               /\ workers' = workers \cup {<<s, task.id, task.retries>>}
               /\ metrics' = refresh_metrics(
                               metrics, task_queue,
                               [sessions EXCEPT ![s] = Attached(task)])
               /\ Return(p, Ret("Ok", s, 0), [loc[p] EXCEPT !.task = NoTask])
               /\ UNCHANGED permits
        ELSE /\ permits' = permits + 1
             /\ Return(p, Ret("NoAvailableSessions", 0, 0),
                       [loc[p] EXCEPT !.task = KeptTask(p)])
             /\ UNCHANGED <<sessions, next_uuid, workers, metrics>>
  /\ UNCHANGED <<config, next_task, calls, task_queue, channel, alert,
                 shutdown, accepted, emitted>>
  /\ UNCHANGED besidesPool

\* --------------------------------------------------------- complete_session
\* the execution of task w[2] handed to session w[1] reports back
CallCompleteSessionWithin(limit, p) ==
  /\ \E w \in workers, success \in BOOLEAN, tokens \in TokenChoices :
       /\ EnterWithin(limit, p, "complete_session", "cs_sessions",
                      [NoLoc EXCEPT
                         !.result = TaskResult(w[2], w[1], success, "done",
                                               tokens),
                         !.attempt = w[3]])
       /\ workers' = workers \ {w}
  /\ UNCHANGED <<config, sessions, next_uuid, next_task, task_queue, permits,
                 channel, metrics, alert, shutdown, accepted, emitted>>
  /\ UNCHANGED besidesPool

CallCompleteSession(p) == CallCompleteSessionWithin(MaxCalls, p)

\* variant of Completed: the session keeps its permit
Completed_keeps_permit(session) ==
  [state |-> "Idle", current_task |-> NoTask, started |-> -1,
   permit |-> session.permit]

\* what complete_session leaves of a session it finds
Completed(session) ==
  [state |-> "Idle", current_task |-> NoTask, started |-> -1, permit |-> FALSE]

\* the counters complete_session updates
CompletedMetrics(m, result) ==
  IF result.success
  THEN [m EXCEPT !.tasks_completed = @ + 1,
                 !.total_tokens = @ + result.tokens_used]
  ELSE [m EXCEPT !.tasks_failed = @ + 1,
                 !.failure_count = @ + 1,
                 !.total_tokens = @ + result.tokens_used]

\* the section of complete_session that holds the sessions write lock, then
\* the counters; Err(SessionStuck) when the id is not in the map
CompleteReset(p) ==
  /\ pc[p] = "cs_sessions"
  /\ LET sid == loc[p].result.session_id
     IN IF sessions[sid].state # "Absent"
        THEN /\ sessions' = [sessions EXCEPT ![sid] = Completed(@)]
             /\ permits' = IF sessions[sid].permit /\ ~Completed(sessions[sid]).permit
                         THEN permits + 1 ELSE permits
             /\ metrics' = CompletedMetrics(metrics, loc[p].result)
             /\ Goto(p, "cs_send", loc[p])
        ELSE /\ Return(p, Ret("SessionStuck", sid, 0),
                       [loc[p] EXCEPT !.result = NoResult, !.attempt = 0])
             /\ UNCHANGED <<sessions, permits, metrics>>
  /\ UNCHANGED <<config, next_uuid, next_task, calls, task_queue, channel,
                 alert, shutdown, workers, accepted, emitted>>
  /\ UNCHANGED besidesPool

\* self.result_tx.send(result).await: suspends while the channel is full;
\* then refresh_metrics and the call of dispatch_from_queue
CompleteSend(p) ==
  /\ pc[p] = "cs_send"
  /\ Len(channel) < ChannelCap
  /\ channel' = Append(channel, loc[p].result)
  /\ emitted' = emitted \cup {loc[p].result.task_id}
  /\ metrics' = refresh_metrics(metrics, task_queue, sessions)
  /\ Call(p, "dq_pop", <<"cs_done">>,
          [loc[p] EXCEPT !.result = NoResult, !.attempt = 0])
  /\ UNCHANGED <<config, sessions, next_uuid, next_task, calls, task_queue,
                 permits, alert, shutdown, workers, accepted>>
  /\ UNCHANGED besidesPool

\* ---------------------------------------------- results, alerts, shutdown
\* try_next_result / next_result taking a result: rx.try_recv(), rx.recv()
NextResult(p) ==
  /\ channel # <<>>
  /\ Enter(p, "next_result", "done",
           [NoLoc EXCEPT !.ret = Ret("Result", Head(channel).task_id, 0)])
  /\ channel' = Tail(channel)
  /\ UNCHANGED <<config, sessions, next_uuid, next_task, task_queue, permits,
                 metrics, alert, shutdown, workers, accepted, emitted>>
  /\ UNCHANGED besidesPool

\* take_backpressure_alert: alert.take()
TakeBackpressureAlert(p) ==
  /\ alert # NoAlert
  /\ Enter(p, "take_backpressure_alert", "done",
           [NoLoc EXCEPT !.ret = Ret(alert.kind, alert.queue_size, alert.limit)])
  /\ alert' = NoAlert
  /\ UNCHANGED <<config, sessions, next_uuid, next_task, task_queue, permits,
                 channel, metrics, shutdown, workers, accepted, emitted>>
  /\ UNCHANGED besidesPool

\* what shutdown leaves of the sessions map
ShutDownSessions(ss) ==
  [s \in SessionIds |->
     IF ss[s].state = "Absent" THEN Absent
     ELSE [ss[s] EXCEPT !.state = "ShuttingDown"]]

\* shutdown: the flag is set and every session marked while the shutdown write
\* lock is held, so no reader of the flag sees the one without the other
Shutdown(p) ==
  /\ Enter(p, "shutdown", "done", [NoLoc EXCEPT !.ret = Ret("Ok", 0, 0)])
  /\ shutdown' = TRUE
  /\ sessions' = ShutDownSessions(sessions)
  /\ UNCHANGED <<config, next_uuid, next_task, task_queue, permits, channel,
                 metrics, alert, workers, accepted, emitted>>
  /\ UNCHANGED besidesPool

\* ------------------------------------------------------------- health_check
CallHealthCheck(p) ==
  /\ Enter(p, "health_check", "hc_scan", NoLoc)
  /\ UNCHANGED <<config, sessions, next_uuid, next_task, task_queue, permits,
                 channel, metrics, alert, shutdown, workers, accepted,
                 emitted>>
  /\ UNCHANGED besidesPool

\* variant of StuckNow: a session is stuck on reaching the threshold
StuckNow_at_threshold ==
  {s \in InState("Running") :
     sessions[s].started # -1 /\ sessions[s].started >= StuckThreshold}

\* the Running sessions health_check finds past a threshold
StuckNow ==
  {s \in InState("Running") :
     sessions[s].started # -1 /\ sessions[s].started > StuckThreshold}

SlowNow ==
  {s \in InState("Running") \ StuckNow :
     sessions[s].started # -1 /\ sessions[s].started > SlowThreshold}

\* the section of health_check that holds the sessions write lock, then
\* stuck_count; migrate_stuck if a session was found stuck
HealthScan(p) ==
  /\ pc[p] = "hc_scan"
  /\ sessions' = [s \in SessionIds |->
                    IF s \in StuckNow THEN [sessions[s] EXCEPT !.state = "Stuck"]
                    ELSE IF s \in SlowNow THEN [sessions[s] EXCEPT !.state = "Slow"]
                    ELSE sessions[s]]
  /\ metrics' = [metrics EXCEPT !.stuck_count = @ + Cardinality(StuckNow)]
  /\ IF StuckNow # {}
     THEN Call(p, "mg_detach", <<"hc_after">>,
               [loc[p] EXCEPT !.hstuck = StuckNow, !.hslow = SlowNow])
     ELSE Return(p, Ret("Report", 0, 0),
                 [loc[p] EXCEPT !.hstuck = StuckNow, !.hslow = SlowNow])
  /\ UNCHANGED <<config, next_uuid, next_task, calls, task_queue, permits,
                 channel, alert, shutdown, workers, accepted, emitted>>
  /\ UNCHANGED besidesPool

\* migration_count += migrations.len(); HealthReport
HealthAfter(p) ==
  /\ pc[p] = "hc_after"
  /\ metrics' = [metrics EXCEPT !.migration_count = @ + Len(loc[p].events)]
  /\ Return(p, Ret("Report", 0, Len(loc[p].events)), loc[p])
  /\ UNCHANGED <<config, sessions, next_uuid, next_task, calls, task_queue,
                 permits, channel, alert, shutdown, workers, accepted,
                 emitted>>
  /\ UNCHANGED besidesPool

\* ------------------------------------------------------------ migrate_stuck
CallMigrateStuck(p) ==
  /\ Enter(p, "migrate_stuck", "mg_detach", NoLoc)
  /\ UNCHANGED <<config, sessions, next_uuid, next_task, task_queue, permits,
                 channel, metrics, alert, shutdown, workers, accepted,
                 emitted>>
  /\ UNCHANGED besidesPool

\* the sessions migrate_stuck detaches a task from
StuckWithTask ==
  {s \in InState("Stuck") : sessions[s].current_task # NoTask}

\* the orders in which sessions.iter_mut() may visit the sessions of S
Orders(S) ==
  {o \in [1..Cardinality(S) -> S] : \A i, j \in 1..Cardinality(S) :
                                      i # j => o[i] # o[j]}

\* task.retries = task.retries.saturating_add(1)
Bumped(task) == [task EXCEPT !.retries = @ + 1]

\* variant of Detached: the session keeps its permit
Detached_keeps_permit(session) ==
  [state |-> "Idle", current_task |-> NoTask, started |-> -1,
   permit |-> session.permit]

\* what migrate_stuck leaves of a session it detaches the task from
Detached(session) ==
  [state |-> "Idle", current_task |-> NoTask, started |-> -1, permit |-> FALSE]

\* the section of migrate_stuck that holds the sessions write lock
MigrateDetach(p) ==
  /\ pc[p] = "mg_detach"
  /\ \E order \in Orders(StuckWithTask) :
       Goto(p, "mg_loop",
            [loc[p] EXCEPT
               !.retry = [i \in 1..Len(order) |->
                            [from |-> order[i],
                             task |-> Bumped(sessions[order[i]].current_task)]],
               !.events = <<>>])
  /\ sessions' = [s \in SessionIds |->
                    IF s \in StuckWithTask THEN Detached(sessions[s])
                    ELSE sessions[s]]
  /\ permits' = permits + Cardinality({s \in StuckWithTask :
                                        /\ sessions[s].permit
                                        /\ ~Detached(sessions[s]).permit})
  /\ UNCHANGED <<config, next_uuid, next_task, calls, task_queue, channel,
                 metrics, alert, shutdown, workers, accepted, emitted>>
  /\ UNCHANGED besidesPool

\* variant of RetriesExceeded: one more retry allowed
RetriesExceeded_late(task) == task.retries > config.max_retries + 1

\* task.retries > self.config.max_retries
RetriesExceeded(task) == task.retries > config.max_retries

\* one turn of the loop over to_retry, up to its first await on the pool:
\* refresh_metrics and the events at the end of the list; the failure counters
\* before the send; retry_count before submit and dispatch_from_queue
MigrateNext(p) ==
  /\ pc[p] = "mg_loop"
  /\ IF loc[p].retry = <<>>
     THEN /\ metrics' = refresh_metrics(metrics, task_queue, sessions)
          /\ Return(p, Ret("Migrations", Len(loc[p].events), 0), loc[p])
     ELSE IF RetriesExceeded(Head(loc[p].retry).task)
     THEN /\ metrics' = [metrics EXCEPT !.tasks_failed = @ + 1,
                                        !.failure_count = @ + 1]
          /\ Goto(p, "mg_send", loc[p])
     ELSE /\ metrics' = [metrics EXCEPT !.retry_count = @ + 1]
          /\ Call(p, "sb_check", <<"dq_pop", "mg_event">>,
                  [loc[p] EXCEPT !.sub = Head(loc[p].retry).task])
  /\ UNCHANGED <<config, sessions, next_uuid, next_task, calls, task_queue,
                 permits, channel, alert, shutdown, workers, accepted,
                 emitted>>
  /\ UNCHANGED besidesPool

\* the TaskResult of a task that ran out of retries
RetriesExceededResult(from_session, task) ==
  TaskResult(task.id, from_session, FALSE, "max retries exceeded", 0)

\* let _ = self.result_tx.send(result).await; continue
MigrateSend(p) ==
  /\ pc[p] = "mg_send"
  /\ Len(channel) < ChannelCap
  /\ channel' = Append(channel, RetriesExceededResult(Head(loc[p].retry).from,
                                                      Head(loc[p].retry).task))
  /\ emitted' = emitted \cup {Head(loc[p].retry).task.id}
  /\ Goto(p, "mg_loop", [loc[p] EXCEPT !.retry = Tail(@)])
  /\ UNCHANGED <<config, sessions, next_uuid, next_task, calls, task_queue,
                 permits, metrics, alert, shutdown, workers, accepted>>
  /\ UNCHANGED besidesPool

\* the MigrationEvent pushed after submit and dispatch_from_queue returned r
MigrationEvent(item, r) ==
  [from_session |-> item.from,
   to_session |-> IF r.tag = "Ok" THEN r.a ELSE 0,
   task_id |-> item.task.id,
   retry_count |-> item.task.retries]

MigrateEvent(p) ==
  /\ pc[p] = "mg_event"
  /\ Goto(p, "mg_loop",
          [loc[p] EXCEPT
             !.events = Append(@, MigrationEvent(Head(loc[p].retry), loc[p].ret)),
             !.retry = Tail(@),
             !.ret = NoRet])
  /\ UNCHANGED <<config, sessions, next_uuid, next_task, calls, task_queue,
                 permits, channel, metrics, alert, shutdown, workers, accepted,
                 emitted>>
  /\ UNCHANGED besidesPool

\* ------------------------------------------ create_session, warmup, scaling
\* sessions.insert(id, SessionInfo::new(id)); then refresh_metrics
CreateSession(p) ==
  /\ pc[p] = "cr_insert"
  /\ next_uuid < MaxSessionIds
  /\ sessions' = [sessions EXCEPT ![next_uuid + 1] = SessionInfo_new]
  /\ next_uuid' = next_uuid + 1
  /\ metrics' = refresh_metrics(metrics, task_queue,
                                [sessions EXCEPT ![next_uuid + 1] = SessionInfo_new])
  /\ Return(p, NoRet, loc[p])
  /\ UNCHANGED <<config, next_task, calls, task_queue, permits, channel, alert,
                 shutdown, workers, accepted, emitted>>
  /\ UNCHANGED besidesPool

CallWarmup(p) ==
  /\ Enter(p, "warmup", "wu_loop", NoLoc)
  /\ UNCHANGED <<config, sessions, next_uuid, next_task, task_queue, permits,
                 channel, metrics, alert, shutdown, workers, accepted,
                 emitted>>
  /\ UNCHANGED besidesPool

\* one turn of warmup's loop: sessions.read().await.len() against min_sessions
WarmupLoop(p) ==
  /\ pc[p] = "wu_loop"
  /\ IF Cardinality(Present) >= Max(config.min_sessions, 0)
     THEN Return(p, Ret("Ok", 0, 0), loc[p])
     ELSE Call(p, "cr_insert", <<"wu_loop">>, loc[p])
  /\ UNCHANGED <<config, sessions, next_uuid, next_task, calls, task_queue,
                 permits, channel, metrics, alert, shutdown, workers, accepted,
                 emitted>>
  /\ UNCHANGED besidesPool

CallAutoScale(p) ==
  /\ Enter(p, "auto_scale", "as_util", NoLoc)
  /\ UNCHANGED <<config, sessions, next_uuid, next_task, task_queue, permits,
                 channel, metrics, alert, shutdown, workers, accepted,
                 emitted>>
  /\ UNCHANGED besidesPool

\* utilization() > scale_up_threshold, in tenths
ScaleUpWanted ==
  /\ Present # {}
  /\ 10 * Cardinality(InState("Running")) > ScaleUpTenths * Cardinality(Present)

\* utilization() < scale_down_threshold, in tenths
ScaleDownWanted ==
  \/ Present = {}
  \/ 10 * Cardinality(InState("Running")) < ScaleDownTenths * Cardinality(Present)

\* auto_scale: utilization() under the sessions read lock, then the branch
AutoScale(p) ==
  /\ pc[p] = "as_util"
  /\ IF ScaleUpWanted THEN Goto(p, "su_loop", loc[p])
     ELSE IF ScaleDownWanted THEN Goto(p, "sd_remove", loc[p])
     ELSE Return(p, Ret("Ok", 0, 0), loc[p])
  /\ UNCHANGED <<config, sessions, next_uuid, next_task, calls, task_queue,
                 permits, channel, metrics, alert, shutdown, workers, accepted,
                 emitted>>
  /\ UNCHANGED besidesPool

\* one turn of scale_up's loop: sessions.read().await.len() against max_sessions
ScaleUpLoop(p) ==
  /\ pc[p] = "su_loop"
  /\ IF Cardinality(Present) >= Max(config.max_sessions, 0)
     THEN Return(p, Ret("Ok", 0, 0), loc[p])
     ELSE Call(p, "cr_insert", <<"su_loop">>, loc[p])
  /\ UNCHANGED <<config, sessions, next_uuid, next_task, calls, task_queue,
                 permits, channel, metrics, alert, shutdown, workers, accepted,
                 emitted>>
  /\ UNCHANGED besidesPool

\* the sets of idle sessions scale_down may remove: take(removable) of the
\* idle ids, in hash order
Removable ==
  {removed \in SUBSET InState("Idle") :
     Cardinality(removed) =
       Min(Cardinality(Present) - Max(config.min_sessions, 0),
           Cardinality(InState("Idle")))}

\* scale_down, under the sessions write lock; refresh_metrics if any was removed
ScaleDown(p) ==
  /\ pc[p] = "sd_remove"
  /\ IF Cardinality(Present) <= Max(config.min_sessions, 0)
     THEN UNCHANGED <<sessions, metrics>>
     ELSE \E removed \in Removable :
            LET left == [s \in SessionIds |->
                           IF s \in removed THEN Absent ELSE sessions[s]]
            IN /\ sessions' = left
               /\ metrics' = IF removed # {}
                             THEN refresh_metrics(metrics, task_queue, left)
                             ELSE metrics
  /\ Return(p, Ret("Ok", 0, 0), loc[p])
  /\ UNCHANGED <<config, next_uuid, next_task, calls, task_queue, permits,
                 channel, alert, shutdown, workers, accepted, emitted>>
  /\ UNCHANGED besidesPool

\* metrics(): refresh_metrics, then a read of the snapshot
Metrics(p) ==
  /\ Enter(p, "metrics", "done", [NoLoc EXCEPT !.ret = Ret("Metrics", 0, 0)])
  /\ metrics' = refresh_metrics(metrics, task_queue, sessions)
  /\ UNCHANGED <<config, sessions, next_uuid, next_task, task_queue, permits,
                 channel, alert, shutdown, workers, accepted, emitted>>
  /\ UNCHANGED besidesPool

\* --------------------------------------------------------------------- time
\* one tick passes: every started_at is one tick further in the past.  Only
\* health_check reads started_at, and only of Running sessions; time is let
\* pass while it can move a session that is Running or Slow towards a
\* threshold.  A health_check measures against the Instant::now() of its
\* first line; the wait for the sessions lock that follows is short of a tick.
Tick ==
  /\ \E s \in InState("Running") \cup InState("Slow") :
       sessions[s].started \notin {-1, AgeCap}
  /\ \A p \in Procs : pc[p] # "hc_scan"
  /\ sessions' = [s \in SessionIds |->
                    IF sessions[s].started = -1 THEN sessions[s]
                    ELSE [sessions[s] EXCEPT !.started = Min(@ + 1, AgeCap)]]
  /\ UNCHANGED <<config, next_uuid, next_task, calls, task_queue, permits,
                 channel, metrics, alert, shutdown, pc, stack, loc, workers,
                 accepted, emitted>>
  /\ UNCHANGED besidesPool

\* ---------------------------------------------------------- specification
PoolStep(p) ==
  \/ Finish(p)
  \/ CallSubmit(p) \/ SubmitCheck(p) \/ SubmitQueue(p)
  \/ CallDispatchFromQueue(p) \/ DispatchPop(p) \/ DispatchAfter(p)
  \/ CallDispatchTask(p) \/ DispatchCheck(p) \/ DispatchAcquire(p)
  \/ DispatchAttach(p)
  \/ CallCompleteSession(p) \/ CompleteReset(p) \/ CompleteSend(p)
  \/ NextResult(p) \/ TakeBackpressureAlert(p) \/ Shutdown(p)
  \/ CallHealthCheck(p) \/ HealthScan(p) \/ HealthAfter(p)
  \/ CallMigrateStuck(p) \/ MigrateDetach(p) \/ MigrateNext(p)
  \/ MigrateSend(p) \/ MigrateEvent(p)
  \/ CreateSession(p) \/ CallWarmup(p) \/ WarmupLoop(p)
  \/ CallAutoScale(p) \/ AutoScale(p) \/ ScaleUpLoop(p) \/ ScaleDown(p)
  \/ Metrics(p)

Next == (\E p \in Procs : PoolStep(p)) \/ Tick

Spec == Init /\ [][Next]_vars

\* ================================================================= claims
\* permits of the semaphore that are out: held by a session or by a caller
Outstanding == Capacity - permits

\* dispatch_task calls between acquire_owned and the transfer or drop of the permit
Dispatching == {p \in Procs : pc[p] = "dt_sessions"}

C2_PermitsAccounted ==
  /\ Outstanding = Cardinality({s \in SessionIds : sessions[s].current_task # NoTask})
                   + Cardinality(Dispatching)
  /\ \A s \in SessionIds :
       sessions[s].permit <=> sessions[s].current_task # NoTask
  /\ \A s \in InState("Running") : sessions[s].current_task # NoTask

\* C2 as the specification words it: the number of Running sessions equals
\* the number of permits out.
C2_RunningEqualsOutstanding ==
  Cardinality(InState("Running")) = Outstanding

\* a Slow session and a dispatch_task call in progress hold the two permits
\* of a pool in which no session is Running
C2_Witness ==
  /\ Outstanding = 2
  /\ InState("Running") = {}
  /\ InState("Slow") # {}
  /\ Dispatching # {}

\* ---------------------------------------------------------------------- C3
\* the tasks waiting in the queue
Queued ==
  UNION {{task_queue.queues[c][i] : i \in 1..Len(task_queue.queues[c])} :
           c \in 1..3}

\* caller p has the task id in hand: as the argument of a submit, as the task
\* of a dispatch_from_queue or dispatch_task, in to_retry of a migrate_stuck,
\* or as the result of a complete_session that has yet to send it
HeldBy(p, id) ==
  \/ loc[p].sub.id = id
  \/ loc[p].task.id = id
  \/ \E i \in 1..Len(loc[p].retry) : loc[p].retry[i].task.id = id
  \/ loc[p].result.task_id = id

AcceptedIds == {accepted[i] : i \in 1..Len(accepted)}

\* C3: every task submit has accepted and no TaskResult was emitted for is in
\* the queue, or attached to exactly one session, or in the hands of a step
\* in progress; none vanishes.
C3_NoTaskVanishes ==
  \A id \in AcceptedIds \ emitted :
    \/ \E task \in Queued : task.id = id
    \/ Cardinality({s \in SessionIds : sessions[s].current_task.id = id}) = 1
    \/ \E p \in Procs : HeldBy(p, id)

\* ---------------------------------------------------------------------- C4
\* the step of submit that holds the queue lock, taken by caller p
SubmitDecides(p) == pc[p] = "sb_queue" /\ pc'[p] # "sb_queue"

\* C4: a submit that finds the pool not shut down returns
\* BackpressureFull {current, max} exactly when the queue length it reads is
\* at least max(backpressure_threshold, 1); then the queue is as it was,
\* backpressure_rejections is one more and the alert is
\* BackpressureExceeded {queue_size = current, limit = threshold}; otherwise
\* the task is pushed and BackpressureFull is not returned.
C4_SubmitBackpressure ==
  [][\A p \in Procs :
       SubmitDecides(p) =>
         LET current == task_queue.total
             limit == Max(config.backpressure_threshold, 1)
         IN IF current >= limit
            THEN /\ loc'[p].ret = Ret("BackpressureFull", current, limit)
                 /\ task_queue' = task_queue
                 /\ metrics'.backpressure_rejections =
                      metrics.backpressure_rejections + 1
                 /\ alert' = BudgetAlert("BackpressureExceeded", current, limit)
            ELSE /\ loc'[p].ret.tag # "BackpressureFull"
                 /\ task_queue' = TaskQueue_push(task_queue, loc[p].sub)
                 /\ metrics'.backpressure_rejections =
                      metrics.backpressure_rejections]_vars

\* a submit has been turned away with BackpressureFull {1, 1}
C4_Witness ==
  /\ \E p \in Procs : /\ loc[p].op = "submit"
                       /\ pc[p] = "done"
                       /\ loc[p].ret = Ret("BackpressureFull", 1, 1)
  /\ metrics.backpressure_rejections = 1
  /\ alert = BudgetAlert("BackpressureExceeded", 1, 1)

\* ---------------------------------------------------------------------- C5
\* C5: a submit that is accepted and leaves the queue at a size of at least
\* ceil(0.8 * threshold) adds exactly one to backpressure_warnings and sets
\* the alert to BackpressureWarning {queue_size = that size, limit =
\* threshold}; any other accepted submit leaves backpressure_warnings as it
\* was.  (For integers n and t, n >= ceil(0.8 * t) is 5 * n >= 4 * t.)
C5_SubmitWarning ==
  [][\A p \in Procs :
       (SubmitDecides(p) /\ task_queue' # task_queue) =>
         LET after == task_queue'.total
             limit == Max(config.backpressure_threshold, 1)
         IN IF 5 * after >= 4 * limit
            THEN /\ metrics'.backpressure_warnings =
                      metrics.backpressure_warnings + 1
                 /\ alert' = BudgetAlert("BackpressureWarning", after, limit)
            ELSE /\ metrics'.backpressure_warnings = metrics.backpressure_warnings
                 /\ alert' = alert]_vars

\* with a threshold of 2, one submit was accepted without a warning and the
\* next with one, at a queue size of 2
C5_Witness ==
  /\ config.backpressure_threshold = 2
  /\ metrics.tasks_submitted = 2
  /\ metrics.backpressure_warnings = 1
  /\ alert = BudgetAlert("BackpressureWarning", 2, 2)

Position(id) ==
  IF id \in AcceptedIds
  THEN CHOOSE i \in 1..Len(accepted) : accepted[i] = id
  ELSE 0

\* the tasks that wait for a session when caller p attaches one: those in
\* the queue and those other callers have taken from it
Waiting(p) ==
  Queued \cup {loc[q].task : q \in {r \in Procs \ {p} : /\ loc[r].task # NoTask
                                                       /\ stack[r] # <<>>}}

\* C7: within one priority class, tasks that were never migrated are attached
\* to sessions in the order submit accepted them: when one is attached, no
\* task of its class accepted before it and never migrated is still waiting.
C7_FifoWithinClass ==
  [][\A p \in Procs :
       (pc[p] = "dt_sessions" /\ sessions' # sessions) =>
         LET task == loc[p].task
         IN (task.retries = 0 /\ Position(task.id) > 0) =>
              \A other \in Waiting(p) :
                (/\ other.retries = 0
                 /\ Position(other.id) > 0
                 /\ ClassOf(other.priority) = ClassOf(task.priority))
                => Position(other.id) > Position(task.id)]_vars

\* ---------------------------------------------------------------------- C8
\* every task in the pool, wherever it is
AllTasks ==
  (Queued
   \cup {sessions[s].current_task : s \in SessionIds}
   \cup {loc[p].sub : p \in Procs}
   \cup {loc[p].task : p \in Procs}) \ {NoTask}

\* C8: migrate_stuck adds one to the retries of each task it detaches.  A
\* task whose retries then exceed max_retries is not put back in the queue
\* and gets no MigrationEvent; tasks_failed and failure_count go up by one
\* and exactly one TaskResult is sent for it, with success = false,
\* tokens_used = 0 and the content "max retries exceeded ...".  No task in
\* the queue, on a session or on its way to either has been migrated more
\* than max_retries times.
C8_MigrationRetries ==
  /\ [](\A task \in AllTasks : task.retries <= config.max_retries)
  /\ [][\A p \in Procs :
          /\ (pc[p] = "mg_detach" /\ pc'[p] = "mg_loop") =>
                /\ Len(loc'[p].retry) = Cardinality(StuckWithTask)
                /\ \A i \in 1..Len(loc'[p].retry) :
                     LET item == loc'[p].retry[i]
                         before == sessions[item.from].current_task
                     IN /\ item.from \in StuckWithTask
                        /\ item.task.id = before.id
                        /\ item.task.retries = before.retries + 1
                        /\ sessions'[item.from].current_task = NoTask
          /\ (/\ pc[p] = "mg_loop"
              /\ loc[p].retry # <<>>
              /\ Head(loc[p].retry).task.retries > config.max_retries
              /\ pc'[p] # "mg_loop") =>
                /\ pc'[p] = "mg_send"
                /\ metrics'.tasks_failed = metrics.tasks_failed + 1
                /\ metrics'.failure_count = metrics.failure_count + 1
                /\ task_queue' = task_queue
                /\ loc'[p] = loc[p]
          /\ (pc[p] = "mg_send" /\ pc'[p] # "mg_send") =>
                LET item == Head(loc[p].retry)
                IN /\ channel' = Append(channel,
                                        [task_id |-> item.task.id,
                                         session_id |-> item.from,
                                         success |-> FALSE,
                                         content |-> "max retries exceeded",
                                         tokens_used |-> 0])
                   /\ pc'[p] = "mg_loop"
                   /\ loc'[p].retry = Tail(loc[p].retry)
                   /\ loc'[p].events = loc[p].events
                   /\ task_queue' = task_queue
                   /\ metrics' = metrics]_vars

\* with max_retries = 1 a task was migrated once, ran again, and was failed
\* by the second migration
C8_Witness ==
  /\ config.max_retries = 1
  /\ metrics.retry_count = 1
  /\ metrics.tasks_failed = 1
  /\ \E i \in 1..Len(channel) :
       /\ channel[i].content = "max retries exceeded"
       /\ ~channel[i].success
  /\ \A p \in Procs : pc[p] \in {"idle", "done"}

\* ---------------------------------------------------------------------- C9
\* the completion caller p reports is late: the session it names has since
\* been given another execution, of another task or of the same one again
LateCompletion(p) ==
  LET current == sessions[loc[p].result.session_id].current_task
  IN /\ current # NoTask
     /\ \/ current.id # loc[p].result.task_id
        \/ current.retries > loc[p].attempt

\* C9: a complete_session that arrives for a session whose task was migrated
\* away changes neither the state, the current task nor the permit of that
\* session, and is not a completion of the task the session has now.
C9_LateCompletionIgnored ==
  [][\A p \in Procs :
       (pc[p] = "cs_sessions" /\ pc'[p] # "cs_sessions" /\ LateCompletion(p)) =>
         /\ sessions' = sessions
         /\ permits' = permits]_vars

\* --------------------------------------------------------------------- C10
\* caller p is in a submit or dispatch_task that began after shutdown returned
AfterShutdown(p) == loc[p].sd /\ loc[p].op \in {"submit", "dispatch_task"}

\* C10: once shutdown has returned, every call of submit and of
\* dispatch_task returns ShuttingDown, and leaves the queue and every
\* session's state and current task as they were.
C10_ShutdownRejects ==
  /\ [](\A p \in Procs :
          AfterShutdown(p) =>
            /\ pc[p] \in {"sb_check", "dt_check", "done"}
            /\ pc[p] = "done" => loc[p].ret = Ret("ShuttingDown", 0, 0))
  /\ [][\A p \in Procs :
          (AfterShutdown(p) /\ pc'[p] # pc[p]) =>
            /\ task_queue' = task_queue
            /\ sessions' = sessions]_vars

\* a submit made after shutdown has returned ShuttingDown, while a session
\* marked ShuttingDown still has its task
C10_Witness ==
  /\ \E p \in Procs :
       /\ loc[p].op = "submit"
       /\ loc[p].sd
       /\ pc[p] = "done"
       /\ loc[p].ret = Ret("ShuttingDown", 0, 0)
  /\ \E s \in SessionIds :
       sessions[s].state = "ShuttingDown" /\ sessions[s].current_task # NoTask

\* --------------------------------------------------------------------- C11
\* C11: complete_session(id, result) on a session that exists leaves it Idle
\* with no current task, no started_at and no permit, and the permit it held
\* is back in the semaphore; total_tokens grows by result.tokens_used;
\* tasks_completed grows by one when result.success, and tasks_failed and
\* failure_count by one each otherwise; the send that follows puts the
\* result at the end of the completion channel.
C11_CompleteSession ==
  [][\A p \in Procs :
       /\ (/\ pc[p] = "cs_sessions"
           /\ sessions[loc[p].result.session_id].state # "Absent"
           /\ pc'[p] # "cs_sessions") =>
             LET sid == loc[p].result.session_id
                 result == loc[p].result
             IN /\ sessions'[sid].state = "Idle"
                /\ sessions'[sid].current_task = NoTask
                /\ sessions'[sid].started = -1
                /\ ~sessions'[sid].permit
                /\ permits' = permits + (IF sessions[sid].permit THEN 1 ELSE 0)
                /\ \A s \in SessionIds \ {sid} : sessions'[s] = sessions[s]
                /\ metrics'.total_tokens = metrics.total_tokens + result.tokens_used
                /\ IF result.success
                   THEN /\ metrics'.tasks_completed = metrics.tasks_completed + 1
                        /\ metrics'.tasks_failed = metrics.tasks_failed
                        /\ metrics'.failure_count = metrics.failure_count
                   ELSE /\ metrics'.tasks_completed = metrics.tasks_completed
                        /\ metrics'.tasks_failed = metrics.tasks_failed + 1
                        /\ metrics'.failure_count = metrics.failure_count + 1
                /\ pc'[p] = "cs_send"
                /\ loc'[p].result = result
       /\ (pc[p] = "cs_send" /\ pc'[p] # "cs_send") =>
             channel' = Append(channel, loc[p].result)]_vars

\* a failed completion has been counted and sent, and the session it named
\* is Idle without a permit
C11_Witness ==
  /\ metrics.tasks_completed = 0
  /\ metrics.tasks_failed = 1
  /\ metrics.failure_count = 1
  /\ metrics.total_tokens = 1
  /\ Len(channel) = 1
  /\ channel[1].content = "done"
  /\ ~channel[1].success
  /\ sessions[channel[1].session_id].state = "Idle"
  /\ ~sessions[channel[1].session_id].permit
  /\ permits = Capacity

\* --------------------------------------------------------------------- C12
\* the session has a task
HasTask(s) == sessions[s].current_task # NoTask

\* C12 (as amended): in every reachable state a session that is Running,
\* Slow or Stuck has a current task, a session with a current task is
\* Running, Slow, Stuck or ShuttingDown, and a session holds a permit
\* exactly when it has a current task.
C12_TaskStatePermit ==
  \A s \in SessionIds :
    /\ sessions[s].state \in {"Running", "Slow", "Stuck"} => HasTask(s)
    /\ HasTask(s) =>
         sessions[s].state \in {"Running", "Slow", "Stuck", "ShuttingDown"}
    /\ sessions[s].permit <=> HasTask(s)

\* C12 as the specification words it: a session has a current task exactly
\* when it is Running, Slow or Stuck, and a permit exactly when it has a
\* current task.
C12_TaskIffBusyState ==
  \A s \in SessionIds :
    /\ HasTask(s) <=> sessions[s].state \in {"Running", "Slow", "Stuck"}
    /\ sessions[s].permit <=> HasTask(s)

\* after shutdown one session marked ShuttingDown still has its task and
\* permit and another has neither
C12_Witness ==
  /\ shutdown
  /\ \E s, t \in SessionIds :
       /\ sessions[s].state = "ShuttingDown" /\ HasTask(s) /\ sessions[s].permit
       /\ sessions[t].state = "ShuttingDown" /\ ~HasTask(t) /\ ~sessions[t].permit

\* the step on which migrate_stuck returns to its caller
MigrateReturns(p) ==
  /\ pc[p] = "mg_loop"
  /\ loc[p].retry = <<>>
  /\ pc'[p] # "mg_loop"

\* C27: for every MigrationEvent migrate_stuck returns, to_session is the
\* session the migrated task landed on: if it is Some(s), session s has the
\* event's task as its current task when migrate_stuck returns, and if it is
\* None the task is on no session.
C27_ToSessionIsLanding ==
  [][\A p \in Procs :
       MigrateReturns(p) =>
         \A i \in 1..Len(loc[p].events) :
           LET e == loc[p].events[i] IN
             IF e.to_session # 0
               THEN sessions'[e.to_session].current_task.id = e.task_id
               ELSE \A s \in SessionIds :
                      sessions'[s].current_task.id # e.task_id
    ]_vars

\* the step of a health_check that examines the sessions
HealthScans(p) == pc[p] = "hc_scan" /\ pc'[p] # "hc_scan"

\* the session has held its task for longer than stuck_threshold
PastStuckThreshold(s) ==
  /\ sessions[s].current_task # NoTask
  /\ sessions[s].started # -1
  /\ sessions[s].started > StuckThreshold

\* C28: a session that has held its task for longer than stuck_threshold,
\* whether it is still Running or was marked Slow by an earlier
\* health_check, is put in state Stuck and reported in stuck_sessions by the
\* first health_check that runs after the threshold was passed.
C28_StuckAtNextHealthCheck ==
  [][\A p \in Procs, s \in SessionIds :
       (/\ HealthScans(p)
        /\ sessions[s].state \in {"Running", "Slow"}
        /\ PastStuckThreshold(s)) =>
          /\ sessions'[s].state = "Stuck"
          /\ s \in loc'[p].hstuck
    ]_vars

\* how long a session has held its task, measured against the thresholds
PastThreshold(s, threshold) ==
  sessions[s].started # -1 /\ sessions[s].started > threshold

\* the step of a health_check that adds its migrations to migration_count
HealthReports(p) == pc[p] = "hc_after" /\ pc'[p] # "hc_after"

\* C29: one health_check classifies each Running session by its elapsed
\* time: past stuck_threshold it becomes Stuck and is in stuck_sessions only;
\* otherwise past slow_threshold it becomes Slow and is in slow_sessions only;
\* otherwise it is untouched and in neither list.  stuck_count grows by the
\* number of sessions newly marked Stuck and migration_count by the number of
\* MigrationEvents returned.
C29_HealthCheckClassifies ==
  [][\A p \in Procs :
       /\ HealthScans(p) =>
            /\ \A s \in SessionIds :
                 IF sessions[s].state = "Running" /\ PastThreshold(s, StuckThreshold)
                   THEN /\ sessions'[s].state = "Stuck"
                        /\ s \in loc'[p].hstuck
                        /\ s \notin loc'[p].hslow
                 ELSE IF sessions[s].state = "Running" /\ PastThreshold(s, SlowThreshold)
                   THEN /\ sessions'[s].state = "Slow"
                        /\ s \in loc'[p].hslow
                        /\ s \notin loc'[p].hstuck
                 ELSE /\ sessions'[s] = sessions[s]
                      /\ s \notin loc'[p].hstuck \cup loc'[p].hslow
            /\ metrics'.stuck_count =
                 metrics.stuck_count
                   + Cardinality({s \in SessionIds : /\ sessions[s].state # "Stuck"
                                                     /\ sessions'[s].state = "Stuck"})
            /\ pc'[p] = "done" => metrics'.migration_count = metrics.migration_count
       /\ HealthReports(p) =>
            metrics'.migration_count = metrics.migration_count + Len(loc[p].events)
    ]_vars

\* a health_check has found one session stuck and another one slow
C29_Witness ==
  \E p \in Procs : loc[p].hstuck # {} /\ loc[p].hslow # {} /\ pc[p] = "hc_after"

\* C30: submit dispatches only opportunistically: a submit made while all
\* max_sessions permits are held by busy sessions is never suspended waiting
\* for a permit, which only a complete_session or a migration would release.
C30_SubmitNeverWaitsForPermit ==
  \A p \in Procs :
    ~(/\ loc[p].op = "submit"
      /\ loc[p].full
      /\ pc[p] = "dt_acquire"
      /\ AllPermitsWithBusySessions)

\* --------------------------------------------------------------------- C37
\* C37: once shutdown() has returned, no session enters state Running and no
\* task is attached to a session, whatever calls of submit, dispatch_task,
\* dispatch_from_queue, complete_session and migrate_stuck are in progress,
\* those that began before shutdown was called included.
C37_NothingStartsAfterShutdown ==
  [][shutdown =>
       \A s \in SessionIds :
         /\ sessions'[s].state = "Running" => sessions[s].state = "Running"
         /\ sessions'[s].current_task # NoTask =>
              sessions'[s].current_task = sessions[s].current_task]_vars

\* --------------------------------------------------------------------- C38
\* the callers of the specification of submit against dispatch_from_queue
QueueCallers == 1..NumQueueCallers

\* the pool after new(), with NumQueueCallers callers
InitQueue ==
  /\ config \in {SessionPool_new_config(c) : c \in Configs}
  /\ sessions = [s \in SessionIds |-> Absent]
  /\ next_uuid = 0
  /\ next_task = 0
  /\ calls = 0
  /\ task_queue = TaskQueue_new
  /\ permits = Capacity
  /\ channel = <<>>
  /\ metrics = PoolMetrics_default
  /\ alert = NoAlert
  /\ shutdown = FALSE
  /\ pc = [p \in QueueCallers |-> "idle"]
  /\ stack = [p \in QueueCallers |-> <<>>]
  /\ loc = [p \in QueueCallers |-> NoLoc]
  /\ workers = {}
  /\ accepted = <<>>
  /\ emitted = {}
  /\ TaskPipeline_new
  /\ LocksIdle
  /\ SessionsIdle
  /\ TopologyIdle
  /\ RoleChannelHub_new(1)
  /\ SelectiveIdle
  /\ HousekeepingIdle

\* submit, dispatch_from_queue with the dispatch_task under it, and shutdown
QueueStep(p) ==
  \/ Finish(p)
  \/ CallSubmit(p) \/ SubmitCheck(p) \/ SubmitQueue(p)
  \/ CallDispatchFromQueue(p) \/ DispatchPop(p) \/ DispatchAfter(p)
  \/ DispatchCheck(p) \/ DispatchAcquire(p) \/ DispatchAttach(p)
  \/ Shutdown(p)

NextQueue == \E p \in QueueCallers : QueueStep(p)

SpecQueue == InitQueue /\ [][NextQueue]_vars

\* the sum of the lengths of the three class queues
QueuedTasks(q) == Len(q.queues[1]) + Len(q.queues[2]) + Len(q.queues[3])

\* C38: in every reachable state the number of queued tasks is at most
\* max(backpressure_threshold, 1), and TaskQueue.total is the sum of the
\* lengths of the three class queues, under any interleaving of submit with
\* dispatch_from_queue calls that pop a task and push it back to the front.
C38_QueueWithinThreshold ==
  /\ QueuedTasks(task_queue) <= Threshold
  /\ task_queue.total = QueuedTasks(task_queue)

\* the second half of C38 on its own
C38_TotalIsSum == task_queue.total = QueuedTasks(task_queue)

\* --------------------------------------------------------------------- C31
\* submit and complete_session, and the dispatch_from_queue and
\* dispatch_task under them, in a pool whose results nobody reads: no
\* next_result and no try_next_result.  dispatch_task has no error to
\* return here (no shutdown, and Idle sessions whenever a permit is free),
\* so dispatch_from_queue never pushes a task back.
UnreadStep(p) ==
  \/ Finish(p)
  \/ CallSubmitWithin(MaxUnreadCalls, MaxUnreadTasks, p)
  \/ SubmitCheck(p) \/ SubmitQueue(p)
  \/ DispatchPop(p)
  \/ DispatchCheck(p) \/ DispatchAcquire(p) \/ DispatchAttach(p)
  \/ CallCompleteSessionWithin(MaxUnreadCalls, p)
  \/ CompleteReset(p) \/ CompleteSend(p)

NextUnread == \E p \in Procs : UnreadStep(p)

SpecUnread == Init /\ [][NextUnread]_vars

\* the call of p is complete_session at self.result_tx.send(result).await
\* and every slot of the channel is taken
SendSuspended(p) == pc[p] = "cs_send" /\ Len(channel) >= ChannelCap

\* C31: no consumer of the completion channel is a hard dependency of
\* complete_session: with results that are never read, a complete_session
\* call on an existing session is never held at the send of its result, so
\* it terminates and goes on to dispatch the next queued task.
C31_CompleteNeverWaitsForReader == \A p \in Procs : ~SendSuspended(p)

\* ---------------------------------------------- task pipeline: operations
PipelineTaskPresent(id) == tasks[id] # NoPipelineTask

\* every public call counts, up to limit calls, and leaves its arguments and
\* value in returned
PipelineCallWithin(limit, r) ==
  /\ pipeline_calls < limit
  /\ pipeline_calls' = pipeline_calls + 1
  /\ returned' = r

PipelineCall(r) == PipelineCallWithin(MaxPipelineCalls, r)

\* TaskPipeline::add
TaskPipeline_add(task) ==
  /\ stage_counts' = CountUp(stage_counts, task.stage)
  /\ tasks' = [tasks EXCEPT ![task.id] = task]

\* pipeline.add(PipelineTask::new(id, ..)) with an id the caller chose
Add ==
  \E id \in AddIds :
    /\ PipelineCall([NoCall EXCEPT !.call = "add", !.id = id])
    /\ TaskPipeline_add(PipelineTask_new(id))
    /\ UNCHANGED <<next_agent_id, goals>>
    /\ UNCHANGED besidesPipeline

\* TaskPipeline::create_from_goal: a fresh uuid, then add
CreateFromGoalWithin(limit) ==
  /\ goals < MaxGoals
  /\ LET id == MaxAddIds + goals + 1 IN
       /\ PipelineCallWithin(limit,
                             [NoCall EXCEPT !.call = "create_from_goal",
                                            !.id = id, !.kind = "Ok",
                                            !.ids = {id}])
       /\ TaskPipeline_add(PipelineTask_new(id))
  /\ goals' = goals + 1
  /\ UNCHANGED next_agent_id
  /\ UNCHANGED besidesPipeline

CreateFromGoal == CreateFromGoalWithin(MaxPipelineCalls)

\* TaskPipeline::advance
AdvanceWithin(limit, id) ==
    LET moved == PipelineTaskPresent(id)
                   /\ PipelineStage_next(tasks[id].stage) # "None"
    IN
    /\ PipelineCallWithin(limit,
                          [NoCall EXCEPT !.call = "advance", !.id = id,
                             !.kind = IF moved THEN "true" ELSE "false"])
    /\ IF moved
         THEN /\ tasks' = [tasks EXCEPT ![id] = PipelineTask_advance(tasks[id])]
              /\ stage_counts' =
                   update_stage_counts(stage_counts, tasks[id].stage,
                                       PipelineTask_advance(tasks[id]).stage)
         ELSE UNCHANGED <<tasks, stage_counts>>
    /\ UNCHANGED <<next_agent_id, goals>>
    /\ UNCHANGED besidesPipeline

Advance == \E id \in PipelineIds : AdvanceWithin(MaxPipelineCalls, id)

\* the agent ids get_stage_tasks hands out: one per active role, from
\* next_agent_id.max(1) on; the roles are taken in the order of active_roles
RECURSIVE AgentTasks(_, _)
AgentTasks(roles, first) ==
  IF roles = {} THEN {}
  ELSE LET role == CHOOSE r \in roles : TRUE IN
         {<<Max(first, 1), role>>} \cup AgentTasks(roles \ {role}, first + 1)

\* TaskPipeline::get_stage_tasks
GetStageTasks ==
  \E id \in PipelineIds :
    /\ IF PipelineTaskPresent(id)
         THEN LET roles == active_roles(tasks[id].stage) IN
              /\ PipelineCall([NoCall EXCEPT !.call = "get_stage_tasks",
                                 !.id = id, !.kind = "Ok",
                                 !.agents = AgentTasks(roles, next_agent_id)])
              /\ next_agent_id' = next_agent_id + Cardinality(roles)
         ELSE /\ PipelineCall([NoCall EXCEPT !.call = "get_stage_tasks",
                                 !.id = id, !.kind = "TaskNotFound"])
              /\ UNCHANGED next_agent_id
    /\ UNCHANGED <<tasks, stage_counts, goals>>
    /\ UNCHANGED besidesPipeline

\* handle_role_complete's test for a finished stage: the roles with an entry
\* in role_results[stage] (progress.keys()) include every active role
StageComplete_across_stages(task, stage) ==
  active_roles(stage) # {}
    /\ active_roles(stage) \subseteq
         {r \in RoleNames : \E s \in Stages : task.role_results[s][r].reported}

StageComplete(task, stage) ==
  active_roles(stage) # {}
    /\ active_roles(stage) \subseteq
         {r \in RoleNames : task.role_results[stage][r].reported}

\* variant of HandleRoleComplete_task: a finished stage does not advance
HandleRoleComplete_task_waits(task, role, output, success) ==
  LET stage == task.stage
      stored == [task EXCEPT !.role_results[stage][role] =
                               RoleResult(output, success)]
  IN IF ~success THEN PipelineTask_fail(stored, output) ELSE stored

\* TaskPipeline::handle_role_complete on a task the pipeline holds: the task
\* afterwards
HandleRoleComplete_task(task, role, output, success) ==
  LET stage == task.stage
      stored == [task EXCEPT !.role_results[stage][role] =
                               RoleResult(output, success)]
  IN IF ~success THEN PipelineTask_fail(stored, output)
     ELSE IF StageComplete(stored, stage)
       THEN PipelineTask_advance(
              PipelineTask_record_output(stored,
                                         StageOutput(stage, TRUE, "")))
     ELSE stored

\* TaskPipeline::handle_role_complete
HandleRoleCompleteWithin(limit, id, role, output, success) ==
    LET call == [NoCall EXCEPT !.call = "handle_role_complete", !.id = id,
                               !.role = role, !.output = output,
                               !.success = success]
    IN
    /\ IF ~PipelineTaskPresent(id)
         THEN /\ PipelineCallWithin(limit, [call EXCEPT !.kind = "TaskNotFound"])
              /\ UNCHANGED <<tasks, stage_counts>>
         ELSE LET stage == tasks[id].stage
                  after == HandleRoleComplete_task(tasks[id], role, output,
                                                   success)
              IN
              /\ PipelineCallWithin(limit,
                   IF ~success
                     THEN [call EXCEPT !.kind = "Fail", !.error = output]
                   ELSE IF after.stage # stage
                     THEN [call EXCEPT !.kind = "Advance",
                                       !.stage = after.stage]
                   ELSE [call EXCEPT !.kind = "Wait"])
              /\ tasks' = [tasks EXCEPT ![id] = after]
              /\ stage_counts' =
                   update_stage_counts(stage_counts, stage, after.stage)
    /\ UNCHANGED <<next_agent_id, goals>>
    /\ UNCHANGED besidesPipeline

HandleRoleComplete ==
  \E id \in PipelineIds, role \in ReportRoles, output \in Outputs,
     success \in BOOLEAN :
    HandleRoleCompleteWithin(MaxPipelineCalls, id, role, output, success)

\* the terminal tasks drain_terminal removes
TerminalIds ==
  {id \in PipelineIds : PipelineTaskPresent(id) /\ is_terminal(tasks[id])}

\* stage_counts after drain_terminal has removed the tasks with these ids
RECURSIVE DrainCounts(_, _)
DrainCounts(counts, ids) ==
  IF ids = {} THEN counts
  ELSE LET id == CHOOSE i \in ids : TRUE IN
         DrainCounts(CountDown(counts, tasks[id].stage), ids \ {id})

\* TaskPipeline::drain_terminal
DrainTerminal ==
  /\ PipelineCall([NoCall EXCEPT !.call = "drain_terminal", !.kind = "Ok",
                                 !.ids = TerminalIds])
  /\ tasks' = [id \in PipelineIds |->
                 IF id \in TerminalIds THEN NoPipelineTask ELSE tasks[id]]
  /\ stage_counts' = DrainCounts(stage_counts, TerminalIds)
  /\ UNCHANGED <<next_agent_id, goals>>
  /\ UNCHANGED besidesPipeline

\* the session pool stays as constructed while the pipeline is exercised
PoolIdle ==
  /\ config = SessionPool_new_config(SessionPoolConfig_default)
  /\ sessions = [s \in SessionIds |-> Absent]
  /\ next_uuid = 0
  /\ next_task = 0
  /\ calls = 0
  /\ task_queue = TaskQueue_new
  /\ permits = Capacity
  /\ channel = <<>>
  /\ metrics = PoolMetrics_default
  /\ alert = NoAlert
  /\ shutdown = FALSE
  /\ pc = [p \in Procs |-> "idle"]
  /\ stack = [p \in Procs |-> <<>>]
  /\ loc = [p \in Procs |-> NoLoc]
  /\ workers = {}
  /\ accepted = <<>>
  /\ emitted = {}

InitPipeline ==
  /\ PoolIdle
  /\ TaskPipeline_new
  /\ LocksIdle
  /\ SessionsIdle
  /\ TopologyIdle
  /\ RoleChannelHub_new(1)
  /\ SelectiveIdle
  /\ HousekeepingIdle

NextPipeline ==
  \/ Add
  \/ CreateFromGoal
  \/ Advance
  \/ GetStageTasks
  \/ HandleRoleComplete
  \/ DrainTerminal

SpecPipeline == InitPipeline /\ [][NextPipeline]_vars

\* ------------------------------------------------- task pipeline: claims
\* the order of the stages a task runs through
StageOrder == <<"Queued", "Planning", "Implementing", "Testing", "Reviewing",
                "Completed">>

StageRank(stage) == CHOOSE i \in 1..Len(StageOrder) : StageOrder[i] = stage

\* a task the pipeline holds under this id before and after the step, the
\* step not being an add that puts a new task under the id
KeepsTask(id) ==
  /\ PipelineTaskPresent(id)
  /\ tasks'[id] # NoPipelineTask
  /\ ~(returned'.call = "add" /\ returned'.id = id)

\* C13: whatever the pipeline is called with (create_from_goal, add, advance,
\* handle_role_complete, get_stage_tasks, drain_terminal), a change of the
\* stage of a task it holds is one step along Queued -> Planning ->
\* Implementing -> Testing -> Reviewing -> Completed, or a jump to Failed:
\* the stage never moves backwards and never skips a stage.
C13_StageMonotone ==
  [][\A id \in PipelineIds :
       (KeepsTask(id) /\ tasks'[id].stage # tasks[id].stage) =>
         \/ tasks'[id].stage = "Failed"
         \/ /\ tasks[id].stage # "Failed"
            /\ tasks'[id].stage # "Failed"
            /\ StageRank(tasks'[id].stage) = StageRank(tasks[id].stage) + 1
    ]_vars

\* a task has gone from Queued to Planning by advance and on to Implementing
\* by the reports of Planning's roles, and another task is still Queued
C13_Witness ==
  /\ returned.call = "handle_role_complete"
  /\ returned.kind = "Advance"
  /\ tasks[returned.id].stage = "Implementing"
  /\ \E id \in PipelineIds :
       PipelineTaskPresent(id) /\ tasks[id].stage = "Queued"

\* the tasks the pipeline holds in this stage
TasksAt(stage) ==
  {id \in PipelineIds : PipelineTaskPresent(id) /\ tasks[id].stage = stage}

\* C14: after every public call (create_from_goal, add, advance,
\* handle_role_complete, drain_terminal) the count recorded for each stage,
\* 0 when the stage has no entry, is the number of tasks the pipeline holds
\* in that stage.
C14_StageCountsConsistent ==
  \A stage \in Stages :
    CountOf(stage_counts, stage) = Cardinality(TasksAt(stage))

\* a successful report: handle_role_complete(id, role, output, true) on a
\* task the pipeline holds
SuccessReport(id) ==
  /\ returned'.call = "handle_role_complete"
  /\ returned'.id = id
  /\ returned'.success
  /\ PipelineTaskPresent(id)

\* the roles that have reported successfully for this stage of the task
ReportedFor(task, stage) ==
  {r \in RoleNames : task.role_results[stage][r].reported
                       /\ task.role_results[stage][r].success}

\* the call returns Advance(next stage) and the task is one stage further
Advanced(id) ==
  LET next == StageOrder[StageRank(tasks[id].stage) + 1] IN
    /\ returned'.kind = "Advance"
    /\ returned'.stage = next
    /\ tasks'[id].stage = next

\* the call returns Wait and the task's stage is unchanged
Waited(id) ==
  /\ returned'.kind = "Wait"
  /\ tasks'[id].stage = tasks[id].stage

\* C15: handle_role_complete with success = true returns Advance(next stage)
\* and moves the task one stage forward exactly when the current stage has
\* active roles and every one of them has reported successfully for that
\* stage, whichever other roles have reported for it too; in every other
\* successful call it returns Wait and the stage is unchanged. Only the
\* reports stored for the current stage count.
C15_AdvanceWhenActiveRolesReported ==
  [][\A id \in PipelineIds :
       SuccessReport(id) =>
         LET stage == tasks[id].stage IN
           IF active_roles(stage) # {}
                /\ active_roles(stage) \subseteq ReportedFor(tasks'[id], stage)
             THEN Advanced(id)
             ELSE Waited(id)
    ]_vars

\* C15 as stated: the task advances exactly when the set of the roles that
\* have reported successfully for the current stage equals the stage's
\* active roles.
C15_AdvanceIffReportedEqualsActive ==
  [][\A id \in PipelineIds :
       SuccessReport(id) =>
         LET stage == tasks[id].stage IN
           IF ReportedFor(tasks'[id], stage) = active_roles(stage)
             THEN Advanced(id)
             ELSE Waited(id)
    ]_vars

\* Coordinator reported while the task was Queued; in Planning Coordinator
\* and Architect reported and the last report returned Advance(Implementing)
C15_Witness ==
  /\ returned.call = "handle_role_complete"
  /\ returned.success
  /\ returned.kind = "Advance"
  /\ returned.stage = "Implementing"
  /\ tasks[returned.id].stage = "Implementing"
  /\ tasks[returned.id].role_results["Queued"]["Coordinator"].reported
  /\ ReportedFor(tasks[returned.id], "Planning") = {"Coordinator", "Architect"}

\* a failure report: handle_role_complete(id, role, output, false) on a task
\* the pipeline holds
FailureReport(id) ==
  /\ returned'.call = "handle_role_complete"
  /\ returned'.id = id
  /\ ~returned'.success
  /\ PipelineTaskPresent(id)

\* 1 if the stages are the same, else 0
Unit(s, t) == IF s = t THEN 1 ELSE 0

\* C16: handle_role_complete with success = false turns the failure of the
\* role into a stage transition: the task's stage becomes Failed, the call
\* returns Fail{role, error = output} and not an error, the stage output
\* recorded for the stage the task was in has success = false and
\* error = output, and the stage counters move one unit from that stage to
\* Failed.
C16_FailureReport ==
  [][\A id \in PipelineIds :
       FailureReport(id) =>
         LET stage == tasks[id].stage IN
           /\ tasks'[id].stage = "Failed"
           /\ returned'.kind = "Fail"
           /\ returned'.error = returned'.output
           /\ tasks'[id].stage_outputs[stage] =
                StageOutput(stage, FALSE, returned'.output)
           /\ \A s \in Stages :
                CountOf(stage_counts', s) =
                  CountOf(stage_counts, s) - Unit(s, stage) + Unit(s, "Failed")
    ]_vars

\* a role of Planning has reported a failure with output "err": the task is
\* Failed, holds the failed output of Planning, and the counters show it
C16_Witness ==
  /\ returned.call = "handle_role_complete"
  /\ returned.kind = "Fail"
  /\ returned.role = "Architect"
  /\ returned.error = "err"
  /\ tasks[returned.id].stage = "Failed"
  /\ tasks[returned.id].stage_outputs["Planning"] =
       StageOutput("Planning", FALSE, "err")
  /\ CountOf(stage_counts, "Planning") = 0
  /\ CountOf(stage_counts, "Failed") = 1

\* ------------------------------------------------------- task topology
\* the inputs: Vec<TopologicalTask> of up to MaxTopoTasks tasks (payload left
\* out), each with an id and a Vec of up to MaxDeps dependencies
TopoIds == 1..MaxTopoIds
TopoDeps == UNION {[1..n -> TopoIds] : n \in 0..MaxDeps}
TopologicalTask == [id : TopoIds, dependencies : TopoDeps]
TopoInputs == UNION {[1..n -> TopologicalTask] : n \in 0..MaxTopoTasks}

\* task_ids
TaskIdsOf(ts) == {ts[i].id : i \in 1..Len(ts)}

\* task_map: each id's task, the last one inserted under it
TaskMap(ts) ==
  [id \in TaskIdsOf(ts) |->
     ts[CHOOSE i \in 1..Len(ts) :
          ts[i].id = id /\ \A j \in (i + 1)..Len(ts) : ts[j].id # id]]

\* the pairs <<dep, task.id>> in the order the two loops of "Build graph"
\* visit them, from task i on
RECURSIVE Edges(_, _)
Edges(ts, i) ==
  IF i > Len(ts) THEN <<>>
  ELSE [j \in 1..Len(ts[i].dependencies) |->
          <<ts[i].dependencies[j], ts[i].id>>] \o Edges(ts, i + 1)

\* the dependencies that name no task, in the order they are met
UnknownDependencies(ts) ==
  SelectSeq(Edges(ts, 1), LAMBDA e : e[1] \notin TaskIdsOf(ts))

\* *indegree.get_mut(task.id) += 1
IndegreeBump_capped(deg) == 1

IndegreeBump(deg) == deg + 1

\* "Build graph": adjacency and indegree after these pairs
RECURSIVE BuildGraph(_, _)
BuildGraph(edges, g) ==
  IF edges = <<>> THEN g
  ELSE LET dep == Head(edges)[1]
           id == Head(edges)[2]
       IN BuildGraph(Tail(edges),
            [adjacency |-> [g.adjacency EXCEPT ![dep] = Append(@, id)],
             indegree |-> [g.indegree EXCEPT ![id] = IndegreeBump(@)]])

\* adjacency and indegree when Kahn's algorithm starts
Graph(ts) ==
  BuildGraph(Edges(ts, 1),
             [adjacency |-> [id \in TaskIdsOf(ts) |-> <<>>],
              indegree |-> [id \in TaskIdsOf(ts) |-> 0]])

\* the inner loop over adjacency[task_id]: indegree and queue afterwards
RECURSIVE Release(_, _, _)
Release(dependents, indegree, queue) ==
  IF dependents = <<>> THEN [indegree |-> indegree, queue |-> queue]
  ELSE LET d == Head(dependents)
           deg == indegree[d] - 1
       IN Release(Tail(dependents), [indegree EXCEPT ![d] = deg],
                  IF deg = 0 THEN Append(queue, d) ELSE queue)

\* for _ in 0..layer_size: n more tasks of the current layer
RECURSIVE ProcessLayer(_, _, _, _)
ProcessLayer(n, st, adjacency, task_map) ==
  IF n = 0 THEN st
  ELSE LET task_id == Head(st.queue)
           r == Release(adjacency[task_id], st.indegree, Tail(st.queue))
       IN ProcessLayer(n - 1,
            [queue |-> r.queue,
             indegree |-> r.indegree,
             current_layer |-> Append(st.current_layer, task_map[task_id]),
             layers |-> st.layers,
             processed |-> st.processed + 1],
            adjacency, task_map)

\* variant of KahnLoop: a layer is one task of the queue
RECURSIVE KahnLoop_one_at_a_time(_, _, _)
KahnLoop_one_at_a_time(st, adjacency, task_map) ==
  IF st.queue = <<>> THEN st
  ELSE LET done == ProcessLayer(1, [st EXCEPT !.current_layer = <<>>],
                                adjacency, task_map)
       IN KahnLoop_one_at_a_time(
            [done EXCEPT !.layers = Append(@, done.current_layer)],
            adjacency, task_map)

\* while !queue.is_empty()
RECURSIVE KahnLoop(_, _, _)
KahnLoop(st, adjacency, task_map) ==
  IF st.queue = <<>> THEN st
  ELSE LET done == ProcessLayer(Len(st.queue),
                                [st EXCEPT !.current_layer = <<>>],
                                adjacency, task_map)
       IN KahnLoop([done EXCEPT !.layers =
                      IF done.current_layer # <<>>
                        THEN Append(@, done.current_layer) ELSE @],
                   adjacency, task_map)

\* the ids the queue starts with; indegree.iter() yields them in any order
ZeroIndegree(ts) ==
  {id \in TaskIdsOf(ts) : Graph(ts).indegree[id] = 0}

\* topological_sort(tasks), the queue starting in this order
topological_sort(ts, queue) ==
  IF ts = <<>>
    THEN [NoSortResult EXCEPT !.kind = "Ok"]
  ELSE IF UnknownDependencies(ts) # <<>>
    THEN [NoSortResult EXCEPT !.kind = "UnknownDependency",
                              !.dependency = UnknownDependencies(ts)[1][1]]
  ELSE LET end == KahnLoop([queue |-> queue,
                            indegree |-> Graph(ts).indegree,
                            current_layer |-> <<>>,
                            layers |-> <<>>,
                            processed |-> 0],
                           Graph(ts).adjacency, TaskMap(ts))
       IN IF end.processed # Len(ts)
            THEN [NoSortResult EXCEPT !.kind = "CircularDependency"]
            ELSE [NoSortResult EXCEPT !.kind = "Ok",
                                      !.layers = end.layers,
                                      !.total_tasks = Len(ts)]

\* a call of topological_sort on the input
TopologicalSort ==
  /\ sort_result = NoSortResult
  /\ \E queue \in Orders(IF UnknownDependencies(input_tasks) = <<>>
                           THEN ZeroIndegree(input_tasks) ELSE {}) :
       sort_result' = topological_sort(input_tasks, queue)
  /\ UNCHANGED input_tasks
  /\ UNCHANGED besidesTopology

InitTopology ==
  /\ PoolIdle
  /\ TaskPipeline_new
  /\ LocksIdle
  /\ SessionsIdle
  /\ input_tasks \in TopoInputs
  /\ sort_result = NoSortResult
  /\ RoleChannelHub_new(1)
  /\ SelectiveIdle
  /\ HousekeepingIdle

NextTopology == TopologicalSort

SpecTopology == InitTopology /\ [][NextTopology]_vars

\* ------------------------------------------------- task topology: claims
\* the places <<layer, index>> of the layers of the result
Places ==
  {<<k, j>> \in (1..Len(input_tasks)) \X (1..Len(input_tasks)) :
     k <= Len(sort_result.layers) /\ j <= Len(sort_result.layers[k])}

TaskIn(place) == sort_result.layers[place[1]][place[2]]

\* C17: whenever topological_sort returns Ok, the layers are a layering of
\* the input: every input task is in exactly one place of one layer and the
\* layers hold nothing else, total_tasks is the number of input tasks, no
\* layer is empty, and each dependency of a task in layer k is in a layer
\* with a smaller index.
C17_ValidLayering ==
  sort_result.kind = "Ok" =>
    /\ \A i \in 1..Len(input_tasks) :
         Cardinality({p \in Places : TaskIn(p) = input_tasks[i]}) = 1
    /\ Cardinality(Places) = Len(input_tasks)
    /\ sort_result.total_tasks = Len(input_tasks)
    /\ \A k \in 1..Len(sort_result.layers) : sort_result.layers[k] # <<>>
    /\ \A p \in Places :
         \A d \in 1..Len(TaskIn(p).dependencies) :
           \E q \in Places :
             /\ q[1] < p[1]
             /\ TaskIn(q).id = TaskIn(p).dependencies[d]

\* Ok for three tasks, one of which depends on the other two and one of
\* those on the third: three layers of one task each
C17_Witness ==
  /\ sort_result.kind = "Ok"
  /\ Len(input_tasks) = 3
  /\ Len(sort_result.layers) = 3
  /\ \E i \in 1..3 : Len(input_tasks[i].dependencies) = 2
                       /\ input_tasks[i].dependencies[1]
                            # input_tasks[i].dependencies[2]

\* the dependencies of the input: <<id, dep>> for every dependency dep of a
\* task with this id
Dependencies ==
  {<<input_tasks[i].id, input_tasks[i].dependencies[d]>> :
     <<i, d>> \in {<<i, d>> \in (1..Len(input_tasks)) \X (1..MaxDeps) :
                     d <= Len(input_tasks[i].dependencies)}}

\* every dependency names a task of the input
AllKnown == \A e \in Dependencies : e[2] \in TaskIdsOf(input_tasks)

\* the dependency graph has a cycle: some ids each depend on one of them
Cyclic ==
  \E S \in SUBSET TaskIdsOf(input_tasks) :
    /\ S # {}
    /\ \A id \in S : \E e \in Dependencies : e[1] = id /\ e[2] \in S

\* C18: topological_sort returns CircularDependency exactly for the inputs
\* with all dependencies known whose dependency graph has a cycle (a task
\* that depends on itself included); it returns UnknownDependency(id), id
\* being a dependency that names no task of the input, when there is such a
\* dependency; for the empty input it returns Ok with no layers and
\* total_tasks = 0; an acyclic input with known dependencies never yields
\* an error.
C18_ErrorsExact ==
  sort_result.kind # "none" =>
    /\ input_tasks = <<>> =>
         sort_result = [NoSortResult EXCEPT !.kind = "Ok"]
    /\ ~AllKnown =>
         /\ sort_result.kind = "UnknownDependency"
         /\ sort_result.dependency \notin TaskIdsOf(input_tasks)
         /\ \E e \in Dependencies : e[2] = sort_result.dependency
    /\ AllKnown =>
         (sort_result.kind = "CircularDependency" <=> Cyclic)
    /\ (AllKnown /\ ~Cyclic) => sort_result.kind = "Ok"

\* ----------------------------------------------------- role channel hub
\* mpsc::channel(buffer_size): the channel register makes for a role, with
\* its buffer, what its Receiver has taken so far, and whether the Receiver
\* and the Sender kept by the hub are still alive
Channel_new(role) ==
  [role |-> role, buffer |-> <<>>, received |-> <<>>, rx_alive |-> TRUE,
   tx_alive |-> TRUE]

\* a message: its number, and the call that sends it
RoleMessage(n, via) == [n |-> n, via |-> via]

\* tx.send(msg) can complete: the channel has room or its Receiver is gone
HasRoom(ch) == Len(chans[ch].buffer) < buffer_size
CanSend(ch) == HasRoom(ch) \/ ~chans[ch].rx_alive

\* the buffer of a channel after a message has been sent
Enqueued_in_front(buffer, msg) == <<msg>> \o buffer

Enqueued(buffer, msg) == Append(buffer, msg)

\* RoleChannelHub::register (&mut self: no send_to or broadcast in progress)
Register ==
  \E role \in HubRoles :
    /\ \A p \in Senders : hub_pc[p].op = "idle"
    /\ Len(chans) < MaxChannels
    /\ chans' = Append(IF channels[role] = 0 THEN chans
                       ELSE [chans EXCEPT ![channels[role]].tx_alive = FALSE],
                       Channel_new(role))
    /\ channels' = [channels EXCEPT ![role] = Len(chans) + 1]
    /\ UNCHANGED <<buffer_size, hub_pc, next_msg, sends>>
    /\ UNCHANGED besidesHub

\* RoleChannelHub::send_to up to tx.send(msg)
CallSendTo(p) ==
  \E role \in HubRoles :
    /\ hub_pc[p].op = "idle"
    /\ next_msg < MaxMsgs
    /\ next_msg' = next_msg + 1
    /\ hub_pc' = [hub_pc EXCEPT ![p] =
         IF channels[role] = 0
           THEN [NoSend EXCEPT !.ret = "Role not found"]
           ELSE [NoSend EXCEPT !.op = "send_to", !.role = role,
                               !.ch = channels[role],
                               !.msg = RoleMessage(next_msg + 1, "send_to")]]
    /\ UNCHANGED <<buffer_size, channels, chans, sends>>
    /\ UNCHANGED besidesHub

\* tx.send(msg).await in send_to: suspended while the channel is full
SendTo(p) ==
  /\ hub_pc[p].op = "send_to"
  /\ CanSend(hub_pc[p].ch)
  /\ IF chans[hub_pc[p].ch].rx_alive
       THEN /\ chans' = [chans EXCEPT ![hub_pc[p].ch].buffer =
                           Enqueued(@, hub_pc[p].msg)]
            /\ sends' = Append(sends, <<hub_pc[p].role, hub_pc[p].ch,
                                        hub_pc[p].msg.n>>)
            /\ hub_pc' = [hub_pc EXCEPT ![p] = [NoSend EXCEPT !.ret = "Ok"]]
       ELSE /\ hub_pc' = [hub_pc EXCEPT ![p] =
                            [NoSend EXCEPT !.ret = "Channel closed"]]
            /\ UNCHANGED <<chans, sends>>
  /\ UNCHANGED <<buffer_size, channels, next_msg>>
  /\ UNCHANGED besidesHub

\* the channels of the registered roles
Registered == {channels[r] : r \in {r \in HubRoles : channels[r] # 0}}

\* RoleChannelHub::broadcast up to the first tx.send(msg.clone());
\* channels.values() yields the senders in any order
CallBroadcast(p) ==
  \E todo \in Orders(Registered) :
    /\ hub_pc[p].op = "idle"
    /\ next_msg < MaxMsgs
    /\ next_msg' = next_msg + 1
    /\ hub_pc' = [hub_pc EXCEPT ![p] =
         IF todo = <<>>
           THEN [NoSend EXCEPT !.ret = "unit"]
           ELSE [NoSend EXCEPT !.op = "broadcast", !.todo = todo,
                               !.msg = RoleMessage(next_msg + 1, "broadcast")]]
    /\ UNCHANGED <<buffer_size, channels, chans, sends>>
    /\ UNCHANGED besidesHub

\* let _ = tx.send(msg.clone()).await in broadcast's loop: suspended while
\* the channel is full; after the last sender broadcast returns
Broadcast(p) ==
  /\ hub_pc[p].op = "broadcast"
  /\ LET ch == Head(hub_pc[p].todo) IN
       /\ CanSend(ch)
       /\ chans' = IF chans[ch].rx_alive
                     THEN [chans EXCEPT ![ch].buffer =
                             Enqueued(@, hub_pc[p].msg)]
                     ELSE chans
  /\ hub_pc' = [hub_pc EXCEPT ![p] =
       IF Tail(hub_pc[p].todo) = <<>>
         THEN [NoSend EXCEPT !.ret = "unit"]
         ELSE [@ EXCEPT !.todo = Tail(@)]]
  /\ UNCHANGED <<buffer_size, channels, next_msg, sends>>
  /\ UNCHANGED besidesHub

\* rx.recv() on the Receiver of a channel with a message in its buffer
Recv ==
  \E ch \in 1..Len(chans) :
    /\ chans[ch].rx_alive
    /\ chans[ch].buffer # <<>>
    /\ chans' = [chans EXCEPT ![ch].received = Append(@, Head(chans[ch].buffer)),
                              ![ch].buffer = Tail(@)]
    /\ UNCHANGED <<buffer_size, channels, hub_pc, next_msg, sends>>
    /\ UNCHANGED besidesHub

\* the Receiver of a channel is dropped, and with it what the buffer holds
DropReceiver ==
  \E ch \in 1..Len(chans) :
    /\ chans[ch].rx_alive
    /\ chans' = [chans EXCEPT ![ch].rx_alive = FALSE, ![ch].buffer = <<>>]
    /\ UNCHANGED <<buffer_size, channels, hub_pc, next_msg, sends>>
    /\ UNCHANGED besidesHub

InitHub ==
  /\ PoolIdle
  /\ TaskPipeline_new
  /\ LocksIdle
  /\ SessionsIdle
  /\ TopologyIdle
  /\ \E size \in 1..MaxBufferSize : RoleChannelHub_new(size)
  /\ SelectiveIdle
  /\ HousekeepingIdle

SenderStep(p) ==
  \/ CallSendTo(p)
  \/ SendTo(p)
  \/ CallBroadcast(p)
  \/ Broadcast(p)

NextHub ==
  \/ Register
  \/ \E p \in Senders : SenderStep(p)
  \/ Recv
  \/ DropReceiver

SpecHub == InitHub /\ [][NextHub]_vars

\* a sender whose send can complete does complete it; a Receiver may never
\* take a message
SpecHubFair ==
  SpecHub /\ \A p \in Senders : WF_vars(SendTo(p)) /\ WF_vars(Broadcast(p))

\* --------------------------------------------- role channel hub: claims
\* the numbers of the messages of send_to among these messages, in order
SentTo(msgs) ==
  LET kept == SelectSeq(msgs, LAMBDA m : m.via = "send_to") IN
    [i \in 1..Len(kept) |-> kept[i].n]

\* what the Receiver of a channel observes: what it has taken, then what
\* is waiting in the buffer
Observed(ch) == chans[ch].received \o chans[ch].buffer

\* the message numbers of the successful send_to calls that satisfy Test
SendsWhere(Test(_)) ==
  LET kept == SelectSeq(sends, Test) IN
    [i \in 1..Len(kept) |-> kept[i][3]]

\* C19: for any single role and each Receiver register(role) has returned,
\* the messages of send_to the Receiver observes are the successful
\* send_to(role, ..) calls made while its channel was the role's registered
\* one, in the order of the calls: none lost, none duplicated, none
\* delivered to the Receiver of another role or of another registration.
C19_FifoPerRegistration ==
  /\ \A ch \in 1..Len(chans) :
       chans[ch].rx_alive =>
         SentTo(Observed(ch)) = SendsWhere(LAMBDA e : e[2] = ch)
  /\ \A i \in 1..Len(sends) : chans[sends[i][2]].role = sends[i][1]

\* C19 as stated: the messages of send_to that the Receiver returned by
\* register(role) observes are the successful send_to(role, ..) calls, in
\* the order of the calls.
C19_FifoPerRole ==
  \A ch \in 1..Len(chans) :
    chans[ch].rx_alive =>
      SentTo(Observed(ch)) = SendsWhere(LAMBDA e : e[1] = chans[ch].role)

\* a role was registered twice; its first Receiver has taken the message
\* sent before the second register, its second Receiver has taken a
\* broadcast message and the message of a later send_to
C19_Witness ==
  \E c1, c2 \in 1..Len(chans) :
    /\ c1 < c2
    /\ chans[c1].role = chans[c2].role
    /\ chans[c1].rx_alive /\ chans[c2].rx_alive
    /\ SentTo(chans[c1].received) = <<1>>
    /\ Len(chans[c2].received) = 2
    /\ SentTo(chans[c2].received) = <<3>>

\* C20: a broadcast call completes whatever the Receivers do, also when the
\* channel of a registered role is full and its Receiver never takes a
\* message.
C20_BroadcastCompletes ==
  \A p \in Senders :
    (hub_pc[p].op = "broadcast") ~> (hub_pc[p].op = "idle")

\* ------------------------------------------------------- selective tests
\* plan.missing.contains(&feature.id)
Contains(seq, v) == \E i \in 1..Len(seq) : seq[i] = v

\* the plan of generate_quick_plan_with_sandbox after the loop over affected
RECURSIVE PlanOver(_, _, _)
PlanOver(affected, sb, plan) ==
  IF affected = <<>> THEN plan
  ELSE LET f == Head(affected)
           strict_without_unit == f.tdd_mode = "Strict" /\ f.unit = <<>>
           e2e_only == f.unit = <<>> /\ f.e2e # <<>>
           missing == IF strict_without_unit /\ ((e2e_only /\ sb) \/ f.e2e = <<>>)
                      THEN Append(plan.missing, f.id)
                      ELSE plan.missing
           full == IF ~sb THEN plan.full \o f.e2e ELSE plan.full
       IN PlanOver(Tail(affected), sb,
                   [quick |-> plan.quick \o f.unit, full |-> full,
                    missing |-> missing])

generate_quick_plan_with_sandbox(affected, sb) ==
  LET plan == PlanOver(affected, sb, TestPlan_empty)
  IN IF plan.full = <<>> /\ ~sb
     THEN [plan EXCEPT !.full = <<"cargo test --all-features">>]
     ELSE plan

\* executed.iter().map(|r| r.command.clone()).collect()
CommandsOf(results) == [i \in 1..Len(results) |-> results[i].command]

\* executed.iter().filter(|r| !r.passed)
Failed(r) == ~r.passed

\* failures.join(",")
RECURSIVE join(_, _)
join(strs, sep) ==
  IF strs = <<>> THEN ""
  ELSE IF Len(strs) = 1 THEN strs[1]
  ELSE strs[1] \o sep \o join(Tail(strs), sep)

\* variant of verification_result_for_feature_with_env: failed commands are
\* reported before missing tests
verification_result_failures_first(f, plan, results, sb) ==
  LET missing_due_to_plan == Contains(plan.missing, f.id)
      e2e_only == f.unit = <<>> /\ f.e2e # <<>>
      strict_with_no_runnable_tests ==
        f.tdd_mode = "Strict" /\ (f.unit = <<>> /\ (f.e2e = <<>> \/ (sb /\ e2e_only)))
      tests_run == CommandsOf(results)
      failures == CommandsOf(SelectSeq(results, Failed))
  IN IF failures # <<>>
     THEN with_reason(VerificationResult_new(FALSE, tests_run),
                      "failed: " \o join(failures, ","))
     ELSE IF \/ missing_due_to_plan
             \/ strict_with_no_runnable_tests
             \/ (f.tdd_mode = "Strict" /\ tests_run = <<>>)
     THEN with_reason(VerificationResult_new(FALSE, tests_run), "missing tests")
     ELSE VerificationResult_new(failures = <<>>, tests_run)

verification_result_for_feature_with_env(f, plan, results, sb) ==
  LET missing_due_to_plan == Contains(plan.missing, f.id)
      e2e_only == f.unit = <<>> /\ f.e2e # <<>>
      strict_with_no_runnable_tests ==
        f.tdd_mode = "Strict" /\ (f.unit = <<>> /\ (f.e2e = <<>> \/ (sb /\ e2e_only)))
      tests_run == CommandsOf(results)
      failures == CommandsOf(SelectSeq(results, Failed))
  IN IF \/ missing_due_to_plan
        \/ strict_with_no_runnable_tests
        \/ (f.tdd_mode = "Strict" /\ tests_run = <<>>)
     THEN with_reason(VerificationResult_new(FALSE, tests_run), "missing tests")
     ELSE IF failures # <<>>
     THEN with_reason(VerificationResult_new(FALSE, tests_run),
                      "failed: " \o join(failures, ","))
     ELSE VerificationResult_new(failures = <<>>, tests_run)

\* the plans a caller may hold for the feature: any list of missing ids
GivenPlans ==
  {[TestPlan_empty EXCEPT !.missing = m] :
     m \in {<<>>} \cup {<<id>> : id \in FeatureIds}}

\* generate_quick_plan for the feature alone
GenerateQuickPlan ==
  /\ verification = NoVerification
  /\ executed = <<>>
  /\ test_plan' = generate_quick_plan_with_sandbox(<<feature>>, sandbox)
  /\ UNCHANGED <<feature, sandbox, executed, verification>>
  /\ UNCHANGED besidesSelective

\* one more test command has been run, and has passed or failed
RunCommand ==
  /\ verification = NoVerification
  /\ Len(executed) < MaxExecuted
  /\ \E command \in Commands, passed \in BOOLEAN :
       executed' = Append(executed, TestCommandResult(command, passed))
  /\ UNCHANGED <<feature, sandbox, test_plan, verification>>
  /\ UNCHANGED besidesSelective

\* verification_result_for_feature(feature, plan, executed, summary)
VerifyFeature ==
  /\ verification = NoVerification
  /\ verification' = verification_result_for_feature_with_env(
                       feature, test_plan, executed, sandbox)
  /\ UNCHANGED <<feature, sandbox, test_plan, executed>>
  /\ UNCHANGED besidesSelective

InitSelective ==
  /\ feature \in Features
  /\ sandbox \in BOOLEAN
  /\ test_plan \in GivenPlans
  /\ executed = <<>>
  /\ verification = NoVerification
  /\ PoolIdle
  /\ TaskPipeline_new
  /\ LocksIdle
  /\ SessionsIdle
  /\ TopologyIdle
  /\ RoleChannelHub_new(1)
  /\ HousekeepingIdle

NextSelective == GenerateQuickPlan \/ RunCommand \/ VerifyFeature

SpecSelective == InitSelective /\ [][NextSelective]_vars

\* ------------------------------------------------ selective tests: claims
\* the Strict-TDD guard fails
GuardFails ==
  \/ \E i \in 1..Len(test_plan.missing) : test_plan.missing[i] = feature.id
  \/ /\ feature.tdd_mode = "Strict"
     /\ Len(feature.unit) = 0
     /\ \/ Len(feature.e2e) = 0
        \/ sandbox /\ Len(feature.e2e) > 0
  \/ feature.tdd_mode = "Strict" /\ Len(executed) = 0

\* the positions of executed whose command failed, in order
FailedAt == {i \in 1..Len(executed) : ~executed[i].passed}

\* the failed commands joined with commas, first to last
RECURSIVE CommaJoined(_, _)
CommaJoined(from, first) ==
  IF from > Len(executed) THEN ""
  ELSE IF from \notin FailedAt THEN CommaJoined(from + 1, first)
  ELSE (IF first THEN "" ELSE ",") \o executed[from].command
         \o CommaJoined(from + 1, FALSE)

\* C26: verification_result_for_feature returns verified = true exactly when
\* no executed command failed and the Strict-TDD guard passes; the reason is
\* "missing tests" whenever the guard fails, "failed: " followed by the
\* comma-joined failed commands when the guard passes and a command failed,
\* and absent when verified; tests_run lists the executed commands in order.
C26_VerificationResult ==
  verification # NoVerification =>
    /\ verification.verified <=> (FailedAt = {} /\ ~GuardFails)
    /\ verification.reason =
         IF GuardFails THEN <<"missing tests">>
         ELSE IF FailedAt # {} THEN <<"failed: " \o CommaJoined(1, TRUE)>>
         ELSE <<>>
    /\ verification.verified => verification.reason = <<>>
    /\ Len(verification.tests_run) = Len(executed)
    /\ \A i \in 1..Len(executed) :
         verification.tests_run[i] = executed[i].command

\* a verification of a failed run whose guard fails as well
C26_Witness ==
  /\ verification # NoVerification
  /\ GuardFails
  /\ Cardinality(FailedAt) = 2

\* ------------------------------------------------------------ housekeeping
\* one more operation on the file system may fail
MayFail == faults < MaxFaults

\* the sets of operations that may fail together among those of S
Failing(S) == {F \in SUBSET S : faults + Cardinality(F) <= MaxFaults}

\* the call of p returns r; its HeldLock, if it has one, is dropped
HkReturn(p, kind, why, outcome) ==
  /\ hk_pc' = [hk_pc EXCEPT ![p] = "idle"]
  /\ hk_loc' = [hk_loc EXCEPT ![p] =
                  [NoHkLoc EXCEPT !.ret = [kind |-> kind, outcome |-> outcome],
                                  !.why = why]]
  /\ lock_holder' = IF lock_holder = p THEN 0 ELSE lock_holder

\* run_housekeeping_if_due up to acquire_lock: HousekeepingConfig::from_env
CallRun(p) ==
  /\ hk_pc[p] = "idle"
  /\ hk_runs < MaxRuns
  /\ hk_runs' = hk_runs + 1
  /\ IF hk_config.disabled
     THEN /\ hk_pc' = hk_pc
          /\ hk_loc' = [hk_loc EXCEPT ![p] =
                          [NoHkLoc EXCEPT !.ret = [kind |-> "Ok(None)",
                                                   outcome |-> CleanupOutcome_default],
                                          !.why = "disabled"]]
     ELSE /\ hk_pc' = [hk_pc EXCEPT ![p] = "hk_lock"]
          /\ hk_loc' = [hk_loc EXCEPT ![p] = NoHkLoc]
  /\ UNCHANGED <<hk_config, hk_clock, lock_holder, state_file, session_days,
                 log_files, tui_log_oversize, worktrees, registry, alive,
                 faults, performed>>
  /\ UNCHANGED besidesHousekeeping

\* variant of WouldBlock: try_lock_exclusive never finds the lock taken
WouldBlock_never == FALSE

\* file.try_lock_exclusive() fails with WouldBlock: another open file
\* description holds the lock of cleanup.lock
WouldBlock == lock_holder # 0

\* acquire_lock(&lock_path)?: opening cleanup.lock or locking it may fail
AcquireLock(p) ==
  /\ hk_pc[p] = "hk_lock"
  /\ \/ /\ MayFail
        /\ faults' = faults + 1
        /\ HkReturn(p, "Err", "lock error", CleanupOutcome_default)
     \/ /\ WouldBlock
        /\ faults' = faults
        /\ HkReturn(p, "Ok(None)", "lock busy", CleanupOutcome_default)
     \/ /\ ~WouldBlock
        /\ faults' = faults
        /\ lock_holder' = p
        /\ hk_pc' = [hk_pc EXCEPT ![p] = "hk_state"]
        /\ hk_loc' = hk_loc
  /\ UNCHANGED <<hk_config, hk_clock, state_file, session_days, log_files,
                 tui_log_oversize, worktrees, registry, alive, hk_runs,
                 performed>>
  /\ UNCHANGED besidesHousekeeping

\* now.unix_timestamp(): whole seconds
unix_timestamp(now) == now \div TicksPerSecond

\* now - last_run < min_interval, for a last run that is recorded
RanRecently(state, now) ==
  /\ state.last_run_unix # <<>>
  /\ MinInterval # 0
  /\ now - state.last_run_unix[1] * TicksPerSecond < MinInterval * TicksPerSecond

\* read_state(&state_path)
read_state == IF state_file.exists THEN state_file.state ELSE CleanupState_default

\* now, read_state(&state_path)? and the test of min_interval; the read or
\* the parse of cleanup-state.json may fail
ReadState(p) ==
  /\ hk_pc[p] = "hk_state"
  /\ \/ /\ MayFail
        /\ faults' = faults + 1
        /\ HkReturn(p, "Err", "state error", CleanupOutcome_default)
        /\ performed' = performed
     \/ /\ faults' = faults
        /\ IF RanRecently(read_state, hk_clock)
           THEN /\ HkReturn(p, "Ok(None)", "ran recently", CleanupOutcome_default)
                /\ performed' = performed
           ELSE /\ hk_pc' = [hk_pc EXCEPT ![p] = "hk_sessions"]
                /\ hk_loc' = [hk_loc EXCEPT ![p].now = hk_clock]
                /\ lock_holder' = lock_holder
                /\ performed' = Append(performed, [by |-> p, now |-> hk_clock])
  /\ UNCHANGED <<hk_config, hk_clock, state_file, session_days, log_files,
                 tui_log_oversize, worktrees, registry, alive, hk_runs>>
  /\ UNCHANGED besidesHousekeeping

\* the day directories cleanup_sessions removes: before today and at least
\* retention_days old
StaleDays == {d \in session_days : d > 0 /\ d >= DefaultSessionRetentionDays}

\* cleanup_sessions: fs::remove_dir_all of a day directory may fail
CleanupSessions(p) ==
  /\ hk_pc[p] = "hk_sessions"
  /\ \E failing \in Failing(StaleDays) :
       /\ faults' = faults + Cardinality(failing)
       /\ session_days' = session_days \ (StaleDays \ failing)
       /\ hk_loc' = [hk_loc EXCEPT
            ![p].outcome.session_days_removed = Cardinality(StaleDays \ failing),
            ![p].outcome.errors = @ + Cardinality(failing)]
  /\ hk_pc' = [hk_pc EXCEPT ![p] =
                 IF hk_config.worktree_retention_days = RetentionOff
                 THEN "hk_logs" ELSE "hk_registry"]
  /\ UNCHANGED <<hk_config, hk_clock, lock_holder, state_file, log_files,
                 tui_log_oversize, worktrees, registry, alive, hk_runs,
                 performed>>
  /\ UNCHANGED besidesHousekeeping

\* the registry files of working/_session
RegistryFiles == {pid \in Pids : registry[pid].exists}

\* pid_file_is_active(name).unwrap_or(false), unknown being the PIDs for
\* which check_pid_alive yields None
is_active(pid, unknown) == pid \notin unknown /\ alive[pid]

\* collect_active_worktrees: listing working/_session may fail, and so may
\* reading a registry file; the registry files of PIDs that are not active
\* are deleted
CollectActive(p) ==
  /\ hk_pc[p] = "hk_registry"
  /\ \/ /\ MayFail
        /\ faults' = faults + 1
        /\ registry' = registry
        /\ hk_loc' = [hk_loc EXCEPT
             ![p].active = {},
             ![p].alive_at_scan = {pid \in RegistryFiles : alive[pid]}]
     \/ \E unknown \in SUBSET RegistryFiles :
          \E unreadable \in Failing({pid \in RegistryFiles : is_active(pid, unknown)}) :
            /\ faults' = faults + Cardinality(unreadable)
            /\ registry' = [pid \in Pids |->
                              IF pid \in RegistryFiles /\ ~is_active(pid, unknown)
                              THEN [exists |-> FALSE, lists |-> {}]
                              ELSE registry[pid]]
            /\ hk_loc' = [hk_loc EXCEPT
                 ![p].active = UNION {registry[pid].lists :
                                        pid \in {q \in RegistryFiles :
                                                   /\ is_active(q, unknown)
                                                   /\ q \notin unreadable}},
                 ![p].alive_at_scan = {pid \in RegistryFiles : alive[pid]},
                 ![p].undetermined = unknown]
  /\ hk_pc' = [hk_pc EXCEPT ![p] = "hk_worktrees"]
  /\ UNCHANGED <<hk_config, hk_clock, lock_holder, state_file, session_days,
                 log_files, tui_log_oversize, worktrees, alive, hk_runs,
                 performed>>
  /\ UNCHANGED besidesHousekeeping

\* the directories of working/<repo>/branches
Branches == {w \in Worktrees : worktrees[w].exists}

\* the worktrees past the retention: !retention.is_zero() && age < retention
\* keeps a worktree
Due(retention_days) ==
  {w \in Branches : retention_days <= 0 \/ worktrees[w].age >= retention_days}

\* the loop of cleanup_worktrees over the branches: a worktree of the active
\* set is skipped and counted; for another one reading its metadata or
\* removing it may fail; a removed worktree is purged from the registry
CleanupWorktrees(p) ==
  /\ hk_pc[p] = "hk_worktrees"
  /\ LET active == hk_loc[p].active
         due == Due(hk_config.worktree_retention_days) \ active
     IN \E failing \in Failing(Branches \ active) :
          LET removed == due \ failing
          IN /\ faults' = faults + Cardinality(failing)
             /\ worktrees' = [w \in Worktrees |->
                                IF w \in removed
                                THEN [exists |-> FALSE, age |-> 0]
                                ELSE worktrees[w]]
             /\ registry' = [pid \in Pids |->
                               [registry[pid] EXCEPT !.lists = @ \ removed]]
             /\ hk_loc' = [hk_loc EXCEPT
                  ![p].outcome.worktrees_removed = Cardinality(removed),
                  ![p].outcome.worktrees_skipped_active =
                    Cardinality(Branches \cap active),
                  ![p].outcome.errors = @ + Cardinality(failing),
                  ![p].removed = removed]
  /\ hk_pc' = [hk_pc EXCEPT ![p] = "hk_logs"]
  /\ UNCHANGED <<hk_config, hk_clock, lock_holder, state_file, session_days,
                 log_files, tui_log_oversize, alive, hk_runs, performed>>
  /\ UNCHANGED besidesHousekeeping

\* the files of log/ that cleanup_logs_by_age removes: modified before the
\* cutoff
StaleLogs == {a \in log_files : a > DefaultLogRetentionDays}

\* cleanup_logs: fs::read_dir(dir)? of the log directory may fail, which
\* ends perform_housekeeping and run_housekeeping_if_due with the error;
\* removing a log file or truncating codex-tui.log may fail
CleanupLogs(p) ==
  /\ hk_pc[p] = "hk_logs"
  /\ \/ /\ MayFail
        /\ faults' = faults + 1
        /\ HkReturn(p, "Err", "log error", hk_loc[p].outcome)
        /\ UNCHANGED <<log_files, tui_log_oversize>>
     \/ \E failing \in Failing(StaleLogs \cup
                               (IF tui_log_oversize THEN {0} ELSE {})) :
          /\ faults' = faults + Cardinality(failing)
          /\ log_files' = log_files \ (StaleLogs \ failing)
          /\ tui_log_oversize' = (tui_log_oversize /\ 0 \in failing)
          /\ hk_loc' = [hk_loc EXCEPT
               ![p].outcome.errors = @ + Cardinality(failing)]
          /\ hk_pc' = [hk_pc EXCEPT ![p] = "hk_write"]
          /\ lock_holder' = lock_holder
  /\ UNCHANGED <<hk_config, hk_clock, state_file, session_days, worktrees,
                 registry, alive, hk_runs, performed>>
  /\ UNCHANGED besidesHousekeeping

\* state.last_run_unix = Some(now.unix_timestamp()); write_state, whose
\* failure is logged; Ok(Some(outcome))
WriteState(p) ==
  /\ hk_pc[p] = "hk_write"
  /\ \/ /\ MayFail
        /\ faults' = faults + 1
        /\ state_file' = state_file
     \/ /\ faults' = faults
        /\ state_file' =
             [exists |-> TRUE,
              state |-> [last_run_unix |-> <<unix_timestamp(hk_loc[p].now)>>]]
  /\ HkReturn(p, "Ok(Some)", "", hk_loc[p].outcome)
  /\ UNCHANGED <<hk_config, hk_clock, session_days, log_files,
                 tui_log_oversize, worktrees, registry, alive, hk_runs,
                 performed>>
  /\ UNCHANGED besidesHousekeeping

\* time passes
HkTick ==
  /\ hk_clock < MaxClock
  /\ hk_clock' = hk_clock + 1
  /\ UNCHANGED <<hk_config, lock_holder, state_file, session_days, log_files,
                 tui_log_oversize, worktrees, registry, alive, faults,
                 hk_runs, hk_pc, hk_loc, performed>>
  /\ UNCHANGED besidesHousekeeping

\* a process that owns worktrees exits
PidExits ==
  /\ \E pid \in Pids :
       /\ alive[pid]
       /\ alive' = [alive EXCEPT ![pid] = FALSE]
  /\ UNCHANGED <<hk_config, hk_clock, lock_holder, state_file, session_days,
                 log_files, tui_log_oversize, worktrees, registry, faults,
                 hk_runs, hk_pc, hk_loc, performed>>
  /\ UNCHANGED besidesHousekeeping

\* a home directory with one stale day of sessions, one stale log file, an
\* oversize codex-tui.log, worktrees and registry files
InitHousekeeping ==
  /\ hk_config \in HousekeepingConfigs
  /\ hk_clock = 0
  /\ lock_holder = 0
  /\ state_file = NoStateFile
  /\ session_days = {DefaultSessionRetentionDays}
  /\ log_files = {DefaultLogRetentionDays + 1}
  /\ tui_log_oversize = TRUE
  /\ worktrees \in [Worktrees -> [exists : {TRUE}, age : {0, 1}]]
  /\ registry \in [Pids -> [exists : {TRUE},
                            lists : SUBSET (1..MaxListed)]]
  /\ alive \in [Pids -> BOOLEAN]
  /\ faults = 0
  /\ hk_runs = 0
  /\ hk_pc = [p \in Cleaners |-> "idle"]
  /\ hk_loc = [p \in Cleaners |-> NoHkLoc]
  /\ performed = <<>>
  /\ PoolIdle
  /\ TaskPipeline_new
  /\ LocksIdle
  /\ SessionsIdle
  /\ TopologyIdle
  /\ RoleChannelHub_new(1)
  /\ SelectiveIdle

CleanerStep(p) ==
  \/ CallRun(p)
  \/ AcquireLock(p)
  \/ ReadState(p)
  \/ CleanupSessions(p)
  \/ CollectActive(p)
  \/ CleanupWorktrees(p)
  \/ CleanupLogs(p)
  \/ WriteState(p)

NextHousekeeping ==
  \/ \E p \in Cleaners : CleanerStep(p)
  \/ HkTick
  \/ PidExits

SpecHousekeeping == InitHousekeeping /\ [][NextHousekeeping]_vars

\* ---------------------------------------------------- housekeeping: claims
\* the processes that are performing cleanup
Cleaning ==
  {p \in Cleaners : hk_pc[p] \in {"hk_sessions", "hk_registry", "hk_worktrees",
                                  "hk_logs", "hk_write"}}

\* what a run may delete, truncate or rewrite under the home directory
HomeFiles == <<state_file, session_days, log_files, tui_log_oversize,
               worktrees, registry>>

\* C21: among the processes that call run_housekeeping_if_due on the same
\* home directory at most one is performing cleanup at any moment, and it
\* holds the lock of cleanup.lock for the whole run; a process that cannot
\* take the lock returns without deleting, truncating or rewriting anything:
\* the files change only in steps of the process that holds the lock.
C21_OneCleanerUnderLock ==
  /\ [](Cardinality(Cleaning) <= 1)
  /\ [](\A p \in Cleaning : lock_holder = p)
  /\ [][HomeFiles' # HomeFiles =>
          \E p \in Cleaners : lock_holder = p /\ hk_pc'[p] # hk_pc[p]]_vars
  /\ [][\A p \in Cleaners :
          (/\ hk_pc[p] \in {"idle", "hk_lock"}
           /\ <<hk_pc'[p], hk_loc'[p]>> # <<hk_pc[p], hk_loc[p]>>) =>
             HomeFiles' = HomeFiles]_vars

\* one process is performing cleanup and another one has found the lock
\* taken and returned
C21_Witness ==
  \E p, q \in Cleaners :
    /\ p \in Cleaning
    /\ hk_pc[q] = "idle"
    /\ hk_loc[q].why = "lock busy"
    /\ hk_loc[q].ret.kind = "Ok(None)"

\* C22: of any two calls of run_housekeeping_if_due on the same home
\* directory that are less than min_interval apart, at most one performs
\* cleanup: the run that performs cleanup records its own time as
\* last_run_unix and cleanup is performed only when no last run is recorded
\* or now - last_run >= min_interval.
C22_OneCleanupPerInterval ==
  \A i, j \in 1..Len(performed) :
    i < j => performed[j].now - performed[i].now >= MinInterval * TicksPerSecond

\* the step in which the call of p scans the registry
ScansRegistry(p) == hk_pc[p] = "hk_registry" /\ hk_pc'[p] # "hk_registry"

\* the step in which the call of p goes through the worktrees
GoesThroughWorktrees(p) == hk_pc[p] = "hk_worktrees" /\ hk_pc'[p] # "hk_worktrees"

\* the worktrees listed in the registry file of a PID that was alive, and
\* found alive, when the call of p scanned the registry
ListedByAlive(p) ==
  UNION {registry[pid].lists :
           pid \in hk_loc[p].alive_at_scan \ hk_loc[p].undetermined}

\* C23: a worktree listed in the registry file of a PID that is alive when
\* the run scans the registry is not removed by that run, whatever its age
\* and the retention, and the worktrees of that kind found under
\* working/<repo>/branches are counted once each in skipped_active.
C23_ActiveWorktreesKept ==
  [][\A p \in Cleaners :
       GoesThroughWorktrees(p) =>
         /\ \A w \in ListedByAlive(p) : worktrees'[w] = worktrees[w]
         /\ hk_loc'[p].outcome.worktrees_skipped_active =
              Cardinality({w \in ListedByAlive(p) : worktrees[w].exists})
    ]_vars

\* C24: when the liveness of the PID of a registry file cannot be determined
\* the PID is treated as alive: the scan does not delete the registry file
\* and the worktrees it lists belong to the active set.
C24_UnknownLivenessKeepsData ==
  [][\A p \in Cleaners :
       ScansRegistry(p) =>
         \A pid \in hk_loc'[p].undetermined :
           /\ registry'[pid] = registry[pid]
           /\ registry[pid].lists \subseteq hk_loc'[p].active
    ]_vars

\* C25: errors met during a run are counted and do not abort it: a call
\* that has taken the lock never returns Err.
C25_RunNeverAborts ==
  \A p \in Cleaners :
    hk_loc[p].ret.kind = "Err" => hk_loc[p].why = "lock error"

\* ------------------------------------------- task pipeline: progression
\* one task is taken from Queued through its stages: create_from_goal, then
\* advance and handle_role_complete on the id it drew.  The roles that report
\* are the active roles of the stage the task is in; on a task with no active
\* role (Queued, Completed, Failed, or no task yet) it is the Reviewer
ProgressId == MaxAddIds + 1

ProgressRoles(stage) ==
  IF active_roles(stage) = {} THEN {"Reviewer"} ELSE active_roles(stage)

ProgressCreate == CreateFromGoalWithin(MaxProgressCalls)

ProgressAdvance == AdvanceWithin(MaxProgressCalls, ProgressId)

ProgressReport ==
  \E role \in ProgressRoles(tasks[ProgressId].stage), success \in BOOLEAN :
    HandleRoleCompleteWithin(MaxProgressCalls, ProgressId, role, "out", success)

NextProgression == ProgressCreate \/ ProgressAdvance \/ ProgressReport

SpecProgression == InitPipeline /\ [][NextProgression]_vars

\* --------------------------------------------------------------------- C33
\* the stages in which roles work
WorkingStages == {"Planning", "Implementing", "Testing", "Reviewing"}

\* the stage that follows a working stage
StageAfter(stage) == StageOrder[StageRank(stage) + 1]

\* the roles that have reported success for the stage the task is in
Succeeded(task) ==
  {r \in RoleNames : /\ task.role_results[task.stage][r].reported
                     /\ task.role_results[task.stage][r].success}

\* the step is a successful handle_role_complete on the task
ReportsSuccess ==
  /\ pipeline_calls' = pipeline_calls + 1
  /\ returned'.call = "handle_role_complete"
  /\ returned'.id = ProgressId
  /\ returned'.success

\* C33: a task for which every active role of each stage reports success
\* reaches Completed.  advance() takes it from Queued to Planning; in each of
\* Planning, Implementing, Testing and Reviewing the successful report that
\* completes the set of active roles (in any order, duplicates allowed)
\* returns Advance(next stage) and moves the task there, the reports before
\* it return Wait and leave the stage; the last of Reviewing returns
\* Advance(Completed) and the task is terminal.
C33_AllRolesSucceedCompletes ==
  [][LET task == tasks[ProgressId]
         after == tasks'[ProgressId]
     IN /\ (/\ pipeline_calls' = pipeline_calls + 1
            /\ returned'.call = "advance"
            /\ task.stage = "Queued") =>
             /\ returned'.kind = "true"
             /\ after.stage = "Planning"
        /\ (ReportsSuccess /\ task.stage \in WorkingStages) =>
             IF active_roles(task.stage) \subseteq
                  Succeeded(task) \cup {returned'.role}
             THEN /\ returned'.kind = "Advance"
                  /\ returned'.stage = StageAfter(task.stage)
                  /\ after.stage = StageAfter(task.stage)
                  /\ task.stage = "Reviewing" =>
                       after.stage = "Completed" /\ is_terminal(after)
             ELSE /\ returned'.kind = "Wait"
                  /\ after.stage = task.stage]_vars

\* the task has reached Completed by the report of the Reviewer, after every
\* active role of every working stage reported success, one of them twice
C33_Witness ==
  /\ tasks[ProgressId].stage = "Completed"
  /\ returned.call = "handle_role_complete"
  /\ returned.kind = "Advance"
  /\ returned.stage = "Completed"
  /\ \A stage \in WorkingStages : \A r \in active_roles(stage) :
       /\ tasks[ProgressId].role_results[stage][r].reported
       /\ tasks[ProgressId].role_results[stage][r].success
  /\ pipeline_calls > 10

\* --------------------------------------------------------------------- C39
\* C39: terminal stages are absorbing: once the task's stage is Completed or
\* Failed it never changes again; advance on it returns false, and
\* handle_role_complete on it, with success true or false, leaves its stage
\* and the stage counters unchanged.
C39_TerminalAbsorbing ==
  [][(/\ PipelineTaskPresent(ProgressId)
      /\ is_terminal(tasks[ProgressId])
      /\ pipeline_calls' = pipeline_calls + 1
      /\ returned'.call \in {"advance", "handle_role_complete"}) =>
       /\ tasks'[ProgressId].stage = tasks[ProgressId].stage
       /\ stage_counts' = stage_counts
       /\ returned'.call = "advance" => returned'.kind = "false"]_vars

\* ------------------------------------------- task topology: acyclic inputs
\* the inputs of MaxLayerTasks tasks with the ids 1..MaxLayerTasks, in any
\* order, each with up to MaxDeps dependencies on ids smaller than its own
LayerIds == 1..MaxLayerTasks

DepsBelow(id) == UNION {[1..n -> 1..(id - 1)] : n \in 0..MaxDeps}

AcyclicInputs ==
  {[i \in LayerIds |-> [id |-> order[i], dependencies |-> deps[order[i]]]] :
     order \in Orders(LayerIds),
     deps \in {d \in [LayerIds -> DepsBelow(MaxLayerTasks)] :
                 \A id \in LayerIds : d[id] \in DepsBelow(id)}}

InitLayers ==
  /\ PoolIdle
  /\ TaskPipeline_new
  /\ LocksIdle
  /\ SessionsIdle
  /\ input_tasks \in AcyclicInputs
  /\ sort_result = NoSortResult
  /\ RoleChannelHub_new(1)
  /\ SelectiveIdle
  /\ HousekeepingIdle

SortAcyclic == TopologicalSort

NextLayers == SortAcyclic

SpecLayers == InitLayers /\ [][NextLayers]_vars

\* --------------------------------------------------------------------- C34
\* the dependencies of the input task with this id, as a set
DependenciesOf(id) == {e[2] : e \in {d \in Dependencies : d[1] = id}}

\* the number of tasks on the longest dependency chain that ends in id
RECURSIVE ChainLen(_)
ChainLen(id) ==
  IF DependenciesOf(id) = {} THEN 1
  ELSE 1 + (CHOOSE n \in 1..MaxLayerTasks :
              /\ \E d \in DependenciesOf(id) : ChainLen(d) = n
              /\ \A d \in DependenciesOf(id) : ChainLen(d) <= n)

\* the index, from 0, of the layer the result has the task with this id in
LayerOf(id) == (CHOOSE p \in Places : TaskIn(p).id = id)[1] - 1

\* C34: topological_sort places every task in the earliest possible layer:
\* layer 0 is exactly the set of tasks with no dependencies, a task with
\* dependencies is in layer 1 + the largest layer index of its dependencies,
\* and the depth is the number of tasks on the longest dependency chain.
C34_EarliestLayer ==
  sort_result.kind = "Ok" =>
    /\ \A id \in TaskIdsOf(input_tasks) :
         /\ LayerOf(id) = 0 <=> DependenciesOf(id) = {}
         /\ DependenciesOf(id) # {} =>
              /\ \E d \in DependenciesOf(id) : LayerOf(id) = 1 + LayerOf(d)
              /\ \A d \in DependenciesOf(id) : LayerOf(id) >= 1 + LayerOf(d)
         /\ LayerOf(id) + 1 = ChainLen(id)
    /\ input_tasks = <<>> => sort_result.layers = <<>>
    /\ input_tasks # <<>> =>
         \E id \in TaskIdsOf(input_tasks) :
           Len(sort_result.layers) = ChainLen(id)
    /\ \A id \in TaskIdsOf(input_tasks) :
         Len(sort_result.layers) >= ChainLen(id)

\* the diamond a; b <- a; c <- a; d <- {b, c} has been sorted into the
\* layers [a], [b, c], [d]
C34_Witness ==
  /\ sort_result.kind = "Ok"
  /\ Dependencies = {<<2, 1>>, <<3, 1>>, <<4, 2>>, <<4, 3>>}
  /\ Len(sort_result.layers) = 3
  /\ Len(sort_result.layers[2]) = 2
  /\ LayerOf(1) = 0 /\ LayerOf(2) = 1 /\ LayerOf(3) = 1 /\ LayerOf(4) = 2

\* ------------------------------------------------------- session cleanup
\* the calendar of the time crate: a leap year, the days of a month
IsLeapYear(year) ==
  year % 4 = 0 /\ (year % 100 # 0 \/ year % 400 = 0)

DaysInMonth(year, month) ==
  IF month = 2 THEN (IF IsLeapYear(year) THEN 29 ELSE 28)
  ELSE IF month \in {4, 6, 9, 11} THEN 30
  ELSE 31

\* Date::from_calendar_date(year, month, day) is Ok
IsDate(year, month, day) ==
  month \in 1..12 /\ day >= 1 /\ day <= DaysInMonth(year, month)

\* the days of the year before the first of the month
RECURSIVE DaysBeforeMonth(_, _)
DaysBeforeMonth(year, month) ==
  IF month = 1 THEN 0
  ELSE DaysBeforeMonth(year, month - 1) + DaysInMonth(year, month - 1)

\* the number of the day, counted from 0001-01-01 (what today - date
\* subtracts: the Julian day numbers of the two dates)
DayNumber(date) ==
  LET y == date.year - 1
  IN 365 * y + (y \div 4) - (y \div 100) + (y \div 400)
       + DaysBeforeMonth(date.year, date.month) + date.day

\* (today - date).whole_days()
WholeDays(later, earlier) == DayNumber(later) - DayNumber(earlier)

\* date >= today: Date is ordered by year, then by the day of the year
DateAtLeast(date, bound) ==
  \/ date.year > bound.year
  \/ /\ date.year = bound.year
     /\ DaysBeforeMonth(date.year, date.month) + date.day
          >= DaysBeforeMonth(bound.year, bound.month) + bound.day

\* variant of should_remove: the age has to exceed retention_days
should_remove_older(date, now_date, days) ==
  IF days <= 0 THEN ~DateAtLeast(date, now_date)
  ELSE WholeDays(now_date, date) > days

\* let should_remove = if keep_today_only { date < today }
\*                     else { (today - date).whole_days() >= retention_days }
should_remove(date, now_date, days) ==
  IF days <= 0 THEN ~DateAtLeast(date, now_date)
  ELSE WholeDays(now_date, date) >= days

\* the day directories the loops of cleanup_sessions remove: those whose
\* name is a date, not today or later, that should_remove selects
RemovedDayDirs(root, now_date, days) ==
  {d \in root.days :
     /\ IsDate(d[1], d[2], d[3])
     /\ ~DateAtLeast(Date(d[1], d[2], d[3]), now_date)
     /\ should_remove(Date(d[1], d[2], d[3]), now_date, days)}

\* dir_is_empty(&month_path) once the days of the month have been gone
\* through, dir_is_empty(&year_path) once its months have been
MonthDirEmpty(root, left_days, month) ==
  /\ month \notin root.other
  /\ ~\E d \in left_days : <<d[1], d[2]>> = month

YearDirEmpty(root, left_months, year) ==
  /\ year \notin root.other
  /\ ~\E m \in left_months : <<m[1]>> = year

\* cleanup_sessions(code_home, today, retention_days): sessions/ afterwards,
\* every remove_dir_all and remove_dir succeeding
cleanup_sessions(root, now_date, days) ==
  LET left_days == root.days \ RemovedDayDirs(root, now_date, days)
      left_months == {m \in root.months : ~MonthDirEmpty(root, left_days, m)}
      left_years == {y \in root.years : ~YearDirEmpty(root, left_months, y)}
  IN [root EXCEPT !.days = left_days, !.months = left_months,
                  !.years = left_years]

\* the inputs: up to MaxDayDirs day directories, at most one entry that is
\* no directory of a month or a day, sessions/2024/01 possibly there with
\* nothing in it; a directory has its parent directories
SessionsRoots ==
  {[days |-> days,
    other |-> other,
    months |-> {<<d[1], d[2]>> : d \in days}
                 \cup (other \cap MonthDirs) \cup empty,
    years |-> {<<d[1]>> : d \in days}
                \cup {<<m[1]>> : m \in (other \cap MonthDirs) \cup empty}
                \cup (other \cap YearDirs)] :
     days \in {D \in SUBSET DayDirs : Cardinality(D) <= MaxDayDirs},
     other \in {O \in SUBSET (MonthDirs \cup YearDirs) : Cardinality(O) <= 1},
     empty \in {{}, {<<2024, 1>>}}}

\* a call of cleanup_sessions
CleanupSessionsRun ==
  /\ session_stats = NoSessionStats
  /\ sessions_root' = cleanup_sessions(sessions_root, today,
                                       session_retention_days)
  /\ session_stats' =
       [removed_days |->
          Cardinality(RemovedDayDirs(sessions_root, today,
                                     session_retention_days)),
        errors |-> 0]
  /\ UNCHANGED <<today, session_retention_days>>
  /\ UNCHANGED besidesSessions

InitSessions ==
  /\ PoolIdle
  /\ TaskPipeline_new
  /\ LocksIdle
  /\ TopologyIdle
  /\ RoleChannelHub_new(1)
  /\ SelectiveIdle
  /\ HousekeepingIdle
  /\ today \in Todays
  /\ session_retention_days \in SessionRetentions
  /\ sessions_root \in SessionsRoots
  /\ session_stats = NoSessionStats

NextSessions == CleanupSessionsRun

SpecSessions == InitSessions /\ [][NextSessions]_vars

\* --------------------------------------------------------------------- C36
\* the day directory names a date
NamesDate(d) == IsDate(d[1], d[2], d[3])

\* the days from the date the directory names to today
AgeInDays(d) == DayNumber(today) - DayNumber(Date(d[1], d[2], d[3]))

RegisterWorktree ==
  /\ \E pid \in Pids, w \in Worktrees :
       /\ alive[pid]
       /\ ~worktrees[w].exists
       /\ worktrees' = [worktrees EXCEPT ![w] = [exists |-> TRUE, age |-> 0]]
       /\ registry' = [registry EXCEPT
            ![pid] = [exists |-> TRUE, lists |-> registry[pid].lists \cup {w}]]
  /\ UNCHANGED <<hk_config, hk_clock, lock_holder, state_file, session_days,
                 log_files, tui_log_oversize, alive, faults, hk_runs, hk_pc,
                 hk_loc, performed>>
  /\ UNCHANGED besidesHousekeeping

\* a home directory shared by the processes that run the housekeeping and
\* the processes that own worktrees: some worktrees exist, listed or not,
\* and no operation on the file system fails
InitSharedHome ==
  /\ hk_config \in {c \in HousekeepingConfigs : ~c.disabled}
  /\ hk_clock = 0
  /\ lock_holder = 0
  /\ state_file = NoStateFile
  /\ session_days = {}
  /\ log_files = {}
  /\ tui_log_oversize = FALSE
  /\ worktrees \in [Worktrees -> {[exists |-> FALSE, age |-> 0],
                                  [exists |-> TRUE, age |-> 0],
                                  [exists |-> TRUE, age |-> 1]}]
  /\ registry \in [Pids -> [exists : {TRUE},
                            lists : SUBSET {w \in 1..MaxListed :
                                              worktrees[w].exists}]]
  /\ alive \in [Pids -> BOOLEAN]
  /\ faults = MaxFaults
  /\ hk_runs = 0
  /\ hk_pc = [p \in Cleaners |-> "idle"]
  /\ hk_loc = [p \in Cleaners |-> NoHkLoc]
  /\ performed = <<>>
  /\ PoolIdle
  /\ TaskPipeline_new
  /\ LocksIdle
  /\ SessionsIdle
  /\ TopologyIdle
  /\ RoleChannelHub_new(1)
  /\ SelectiveIdle

NextSharedHome ==
  \/ \E p \in Cleaners : CleanerStep(p)
  \/ RegisterWorktree
  \/ PidExits

SpecSharedHome == InitSharedHome /\ [][NextSharedHome]_vars

\* the worktrees that exist and are listed in the registry file of a PID
\* that is alive
RecordedByLive ==
  {w \in Branches : \E pid \in Pids : /\ alive[pid]
                                      /\ registry[pid].exists
                                      /\ w \in registry[pid].lists}

\* C35: a worktree that a live process has recorded in its pid-<PID>.txt is
\* not removed by the housekeeping run of another process, also when the
\* process creates and records it between the run's scan of the registry
\* and its scan of the branches.
C35_RegisteredWorktreesKept ==
  [][\A p \in Cleaners :
       GoesThroughWorktrees(p) =>
         \A w \in RecordedByLive : worktrees'[w] = worktrees[w]]_vars

\* ------------------------------------------------ pool locks: operations
\* the steps of an operation that matter to the locks, in program order:
\* a lock requested, a guard dropped, an await on the semaphore or on the
\* completion channel, and a call of another operation of the pool
Acquire(lock, mode) == << <<"acquire", lock, mode>> >>
Drop(lock) == << <<"release", lock, "">> >>
Suspend(on) == << <<"suspend", on, "">> >>
CallOf(fn) == << <<"call", fn, "">> >>

\* a guard that lives within one statement, condition or block
Within(lock, mode) == Acquire(lock, mode) \o Drop(lock)

\* variant of refresh_metrics_locks: the metrics guard is taken first and
\* held while the queue is read
refresh_metrics_locks_metrics_first ==
  {Acquire("metrics", "write") \o Within("task_queue", "lock")
     \o Acquire("sessions", "read")
     \o Drop("metrics") \o Drop("sessions")}

\* refresh_metrics: the queue guard is a temporary; the sessions read guard
\* is held while the metrics write guard is taken; both drop at the end
refresh_metrics_locks ==
  {Within("task_queue", "lock")
     \o Acquire("sessions", "read") \o Acquire("metrics", "write")
     \o Drop("metrics") \o Drop("sessions")}

\* submit: ShuttingDown; BackpressureFull; accepted with the warning;
\* accepted without.  The queue guard is held from the lock to drop(queue)
\* or to the return.
submit_locks ==
  {Within("shutdown", "read"),
   Within("shutdown", "read") \o Acquire("task_queue", "lock")
     \o Within("metrics", "write") \o Within("backpressure_alert", "write")
     \o Drop("task_queue"),
   Within("shutdown", "read") \o Acquire("task_queue", "lock")
     \o Within("metrics", "write") \o Within("backpressure_alert", "write")
     \o Drop("task_queue") \o Within("metrics", "write")
     \o CallOf("refresh_metrics") \o CallOf("dispatch_from_queue"),
   Within("shutdown", "read") \o Acquire("task_queue", "lock")
     \o Drop("task_queue") \o Within("metrics", "write")
     \o CallOf("refresh_metrics") \o CallOf("dispatch_from_queue")}

create_session_locks ==
  {Within("sessions", "write") \o CallOf("refresh_metrics")}

\* warmup and scale_up: loop { sessions.read().await.len(); break or
\* create_session }
warmup_locks ==
  {Within("sessions", "read"),
   Within("sessions", "read") \o CallOf("create_session") \o CallOf("warmup")}

scale_up_locks ==
  {Within("sessions", "read"),
   Within("sessions", "read") \o CallOf("create_session") \o CallOf("scale_up")}

\* dispatch_task that returns Ok: the flag, the permit, the sessions block,
\* the metrics block, refresh_metrics
dispatch_task_ok_locks ==
  {Within("shutdown", "read") \o Suspend("semaphore")
     \o Within("sessions", "write") \o Within("metrics", "write")
     \o CallOf("refresh_metrics")}

\* dispatch_task that returns Err: ShuttingDown, NoAvailableSessions
dispatch_task_err_locks ==
  {Within("shutdown", "read"),
   Within("shutdown", "read") \o Suspend("semaphore")
     \o Within("sessions", "write")}

\* dispatch_from_queue: an empty queue; a task dispatched; a task pushed
\* back to the front
dispatch_from_queue_locks ==
  {Within("task_queue", "lock") \o CallOf("refresh_metrics"),
   Within("task_queue", "lock") \o CallOf("dispatch_task: Ok"),
   Within("task_queue", "lock") \o CallOf("dispatch_task: Err")
     \o Within("task_queue", "lock") \o CallOf("refresh_metrics")}

\* complete_session: SessionStuck; the session reset, the counters, the
\* send, refresh_metrics, dispatch_from_queue
complete_session_locks ==
  {Within("sessions", "write"),
   Within("sessions", "write") \o Within("metrics", "write")
     \o Suspend("result_tx") \o CallOf("refresh_metrics")
     \o CallOf("dispatch_from_queue")}

utilization_locks == {Within("sessions", "read")}

scale_down_locks ==
  {Within("sessions", "write"),
   Within("sessions", "write") \o CallOf("refresh_metrics")}

auto_scale_locks ==
  {CallOf("utilization"),
   CallOf("utilization") \o CallOf("scale_up"),
   CallOf("utilization") \o CallOf("scale_down")}

\* migrate_stuck: the sessions block, then the loop over to_retry
migrate_stuck_locks ==
  {Within("sessions", "write") \o CallOf("migrate_stuck: for")}

\* the loop of migrate_stuck: over, then refresh_metrics; a task past
\* max_retries; a task submitted again
migrate_stuck_for_locks ==
  {CallOf("refresh_metrics"),
   Within("metrics", "write") \o Suspend("result_tx")
     \o CallOf("migrate_stuck: for"),
   Within("metrics", "write") \o CallOf("submit")
     \o CallOf("dispatch_from_queue") \o CallOf("migrate_stuck: for")}

\* health_check: nothing stuck; stuck sessions without and with migrations
health_check_locks ==
  {Within("sessions", "write"),
   Within("sessions", "write") \o Within("metrics", "write")
     \o CallOf("migrate_stuck"),
   Within("sessions", "write") \o Within("metrics", "write")
     \o CallOf("migrate_stuck") \o Within("metrics", "write")}

\* shutdown: the shutdown write guard is held to the end of the function
shutdown_locks ==
  {Acquire("shutdown", "write") \o Acquire("sessions", "write")
     \o Drop("sessions") \o Drop("shutdown")}

\* next_result holds the receiver's guard across rx.recv().await
next_result_locks ==
  {Acquire("result_rx", "lock") \o Suspend("result_rx") \o Drop("result_rx")}

\* the ways through fn
LockSteps(fn) ==
  CASE fn = "refresh_metrics" -> refresh_metrics_locks
    [] fn = "submit" -> submit_locks
    [] fn = "create_session" -> create_session_locks
    [] fn = "warmup" -> warmup_locks
    [] fn = "scale_up" -> scale_up_locks
    [] fn = "dispatch_task: Ok" -> dispatch_task_ok_locks
    [] fn = "dispatch_task: Err" -> dispatch_task_err_locks
    [] fn = "dispatch_task" ->
         dispatch_task_ok_locks \cup dispatch_task_err_locks
    [] fn = "dispatch_from_queue" -> dispatch_from_queue_locks
    [] fn = "session_for_task" -> {Within("sessions", "read")}
    [] fn = "complete_session" -> complete_session_locks
    [] fn = "utilization" -> utilization_locks
    [] fn = "scale_down" -> scale_down_locks
    [] fn = "auto_scale" -> auto_scale_locks
    [] fn = "migrate_stuck" -> migrate_stuck_locks
    [] fn = "migrate_stuck: for" -> migrate_stuck_for_locks
    [] fn = "health_check" -> health_check_locks
    [] fn = "shutdown" -> shutdown_locks
    [] fn = "try_next_result" -> {Within("result_rx", "lock")}
    [] fn = "next_result" -> next_result_locks
    [] fn = "metrics" ->
         {CallOf("refresh_metrics") \o Within("metrics", "read")}
    [] fn = "take_backpressure_alert" -> {Within("backpressure_alert", "write")}

\* the pub async fns of SessionPool
PublicOperations ==
  {"submit", "warmup", "dispatch_from_queue", "dispatch_task",
   "session_for_task", "complete_session", "auto_scale", "migrate_stuck",
   "try_next_result", "next_result", "metrics", "take_backpressure_alert",
   "health_check", "shutdown", "utilization"}

\* the step the operation of p is at
NextStep(p) == Head(lk_todo[p])

At(p, kind) == lk_todo[p] # <<>> /\ NextStep(p)[1] = kind

\* the step of p is taken
StepTaken(p) ==
  /\ lk_todo' = [lk_todo EXCEPT ![p] = Tail(@)]
  /\ lk_op' = [lk_op EXCEPT ![p] = IF Tail(lk_todo[p]) = <<>> THEN "" ELSE @]

\* the callers in the wait queue of lock
WaitersOf(lock) == {lk_queue[lock][i][1] : i \in 1..Len(lk_queue[lock])}

\* a guard of mode can be handed out: readers share, all else excludes
Compatible(lock, mode) ==
  IF mode = "read" THEN \A h \in lk_held[lock] : h[2] = "read"
  ELSE lk_held[lock] = {}

\* a caller starts a public operation
LockCall(p) ==
  /\ lk_todo[p] = <<>>
  /\ \E op \in PublicOperations :
       /\ lk_todo' = [lk_todo EXCEPT ![p] = CallOf(op)]
       /\ lk_op' = [lk_op EXCEPT ![p] = op]
  /\ UNCHANGED <<lk_held, lk_queue>>
  /\ UNCHANGED besidesLocks

\* the call of a function: one of the ways through it is taken
LockEnter(p) ==
  /\ At(p, "call")
  /\ \E steps \in LockSteps(NextStep(p)[2]) :
       lk_todo' = [lk_todo EXCEPT ![p] = steps \o Tail(@)]
  /\ UNCHANGED <<lk_held, lk_queue, lk_op>>
  /\ UNCHANGED besidesLocks

\* lock.read().await, lock.write().await, lock.lock().await: the guard at
\* once when nobody waits and the holders allow it, the end of the wait
\* queue otherwise
LockRequest(p) ==
  /\ At(p, "acquire")
  /\ LET lock == NextStep(p)[2]
         mode == NextStep(p)[3]
     IN /\ p \notin WaitersOf(lock)
        /\ IF lk_queue[lock] = <<>> /\ Compatible(lock, mode)
           THEN /\ lk_held' = [lk_held EXCEPT ![lock] = @ \cup {<<p, mode>>}]
                /\ StepTaken(p)
                /\ UNCHANGED lk_queue
           ELSE /\ lk_queue' = [lk_queue EXCEPT
                     ![lock] = Append(@, <<p, mode>>)]
                /\ UNCHANGED <<lk_held, lk_todo, lk_op>>
  /\ UNCHANGED besidesLocks

\* the first waiter of a lock is handed the guard
LockGrant(p) ==
  /\ At(p, "acquire")
  /\ LET lock == NextStep(p)[2]
         mode == NextStep(p)[3]
     IN /\ lk_queue[lock] # <<>>
        /\ Head(lk_queue[lock]) = <<p, mode>>
        /\ Compatible(lock, mode)
        /\ lk_held' = [lk_held EXCEPT ![lock] = @ \cup {<<p, mode>>}]
        /\ lk_queue' = [lk_queue EXCEPT ![lock] = Tail(@)]
        /\ StepTaken(p)
  /\ UNCHANGED besidesLocks

\* a guard is dropped
LockRelease(p) ==
  /\ At(p, "release")
  /\ lk_held' = [lk_held EXCEPT
       ![NextStep(p)[2]] = {h \in @ : h[1] # p}]
  /\ StepTaken(p)
  /\ UNCHANGED lk_queue
  /\ UNCHANGED besidesLocks

\* an await on the semaphore or on the completion channel completes
LockResume(p) ==
  /\ At(p, "suspend")
  /\ StepTaken(p)
  /\ UNCHANGED <<lk_held, lk_queue>>
  /\ UNCHANGED besidesLocks

InitLocks ==
  /\ LocksIdle
  /\ PoolIdle
  /\ TaskPipeline_new
  /\ SessionsIdle
  /\ TopologyIdle
  /\ RoleChannelHub_new(1)
  /\ SelectiveIdle
  /\ HousekeepingIdle

NextLocks ==
  \E p \in LockCallers :
    \/ LockCall(p)
    \/ LockEnter(p)
    \/ LockRequest(p)
    \/ LockGrant(p)
    \/ LockRelease(p)
    \/ LockResume(p)

SpecLocks == InitLocks /\ [][NextLocks]_vars

\* the locks of which p holds a guard
GuardsOf(p) == {l \in LockNames : \E h \in lk_held[l] : h[1] = p}

\* the locks of the shared-resource policy
PolicyLocks ==
  {"sessions", "task_queue", "metrics", "backpressure_alert", "shutdown"}

\* --------------------------------------------------------------------- C32
\* C32: the pool operations take the locks sessions, task_queue, metrics,
\* backpressure_alert and shutdown one at a time: no operation requests
\* one of them while it holds another, and none holds one across an await
\* on the semaphore or on the completion channel.
C32_LocksOneAtATime ==
  \A p \in LockCallers :
    /\ (At(p, "acquire") /\ NextStep(p)[2] \in PolicyLocks) =>
         GuardsOf(p) \cap PolicyLocks = {}
    /\ (At(p, "suspend") /\ NextStep(p)[2] \in {"semaphore", "result_tx"}) =>
         GuardsOf(p) \cap PolicyLocks = {}

\* the second half of C32 on its own
C32_NoLockAcrossSuspension ==
  \A p \in LockCallers :
    (At(p, "suspend") /\ NextStep(p)[2] \in {"semaphore", "result_tx"}) =>
      GuardsOf(p) \cap PolicyLocks = {}

\* --------------------------------------------------------------------- C40
\* p waits for q: p is in the wait queue of a lock that q holds in a mode
\* that excludes p's, or in which q waits before p
WaitsFor(p, q) ==
  \E lock \in LockNames :
    \E i \in 1..Len(lk_queue[lock]) :
      /\ lk_queue[lock][i][1] = p
      /\ \/ \E h \in lk_held[lock] :
              h[1] = q /\ ~(h[2] = "read" /\ lk_queue[lock][i][2] = "read")
         \/ \E j \in 1..(i - 1) : lk_queue[lock][j][1] = q

\* q is reached from p in at most n steps of WaitsFor
RECURSIVE WaitsWithin(_, _, _)
WaitsWithin(p, q, n) ==
  IF n = 0 THEN FALSE
  ELSE \/ WaitsFor(p, q)
       \/ \E r \in LockCallers : WaitsFor(p, r) /\ WaitsWithin(r, q, n - 1)

\* a ranking of the locks for which every lock requested while another is
\* held lies above the one held
LockRank(lock) ==
  CASE lock \in {"shutdown", "task_queue", "result_rx"} -> 1
    [] lock = "sessions" -> 2
    [] lock \in {"metrics", "backpressure_alert"} -> 3

\* C40: the locks of the pool cannot deadlock: in no reachable state does
\* each operation of a group wait for a lock held by another of the group,
\* and the order in which a lock is requested while another is held has no
\* cycle: it goes up in LockRank.
C40_NoLockDeadlock ==
  \A p \in LockCallers :
    /\ ~WaitsWithin(p, p, NumLockCallers)
    /\ At(p, "acquire") =>
         \A held \in GuardsOf(p) : LockRank(held) < LockRank(NextStep(p)[2])

\* submit holds the queue guard and waits for the metrics guard, which
\* refresh_metrics holds together with the sessions guard, under metrics()
C40_Witness ==
  \E p, q \in LockCallers :
    /\ lk_op[p] = "submit" /\ lk_op[q] = "metrics"
    /\ GuardsOf(p) = {"task_queue"}
    /\ GuardsOf(q) = {"sessions", "metrics"}
    /\ WaitsFor(p, q)

====
